---- MODULE Spec2Model ----
(***************************************************************************)
(* Fireworks show designer: the show store (useFireworkShow), the          *)
(* transport (handlePlay / handlePause / handleStop / handleSeek and the   *)
(* playback loop) and the AudioPlayer that schedules the audio sources.    *)
(*                                                                         *)
(* Times are integers in milliseconds.  The audio context clock and the    *)
(* player's startTime are kept in seconds by the code; here they are the   *)
(* same rationals written as a whole number of milliseconds, so the        *)
(* code's "/ 1000" and "* 1000" are exact.                                 *)
(***************************************************************************)
EXTENDS Integers, Sequences, FiniteSets, TLC

VARIABLES
    tracks,           \* show.tracks
    audioClips,       \* show.audioClips
    fireworks,        \* show.fireworks
    customFireworks,  \* show.customFireworks
    duration,         \* show.duration
    audioBuffers,     \* audioBuffers: the entries [id, duration] of the Map of decoded buffers
    pendingDecodes,   \* addAudioClip calls suspended in loadAudioFile
    nextId,           \* number of ids generateId has handed out
    nextCustom,       \* number of custom definition ids handed out
    playback,         \* PlaybackState
    player,           \* the AudioPlayer singleton
    ctxTime,          \* AudioContext.currentTime
    timers,           \* restarts scheduled by handleSeek (setTimeout), in order
    liveNodes,        \* per clip id: source nodes started and not stopped
    animationRef,     \* TRUE iff a playback tick (requestAnimationFrame) is scheduled
    raised,           \* the error the last handler that can raise let escape, or "none"
    lastOp,           \* the last handler that ran and its argument
    showName,         \* show.name
    createdAt,        \* show.createdAt
    updatedAt,        \* show.updatedAt
    dateNow,          \* the wall clock new Date() reads
    exported,         \* the file exportShow downloaded last, or "none"
    ruler,            \* the last call of generateRulerTicks and its result
    mapped,           \* the last conversion between pixels and milliseconds
    claude,           \* ClaudeService.stream: the child process, its line buffer, the Subject
    response          \* the /chat/stream response: its subscription and the events sent

showVars == <<tracks, audioClips, fireworks, customFireworks, duration,
              audioBuffers, pendingDecodes, nextId, nextCustom,
              showName, createdAt, updatedAt>>
serverVars == <<claude, response>>
ioVars == <<dateNow, exported, ruler, mapped, serverVars>>
transportVars == <<playback, player, ctxTime, timers, liveNodes, animationRef,
                   raised>>
vars == <<tracks, audioClips, fireworks, customFireworks, duration,
          audioBuffers, pendingDecodes, nextId, nextCustom,
          playback, player, ctxTime, timers, liveNodes, animationRef, raised,
          lastOp, showName, createdAt, updatedAt, dateNow, exported, ruler,
          mapped, claude, response>>

----------------------------------------------------------------------------
(* Bounds of the model *)

MaxIds == 2           \* generateId results per run
MaxCustom == 1        \* custom definitions per run
MaxPending == 1       \* decodes in flight
MaxTimers == 1        \* restart timers in flight
MaxSeeks == 2         \* restart timers in flight when seeks follow each other
MaxPlayedClips == 1   \* clips added while the transport is exercised
MaxClock == 75       \* the audio clock stops here
Quantum == 25        \* step of the audio clock
MaxDate == 2         \* ticks of the wall clock per run
MantissaBits == 16   \* significand width of the numbers of the conversions

(* Program constants *)

DefaultDuration == 300000
RestartDelay == 50
DefaultFuseTime == 500
DefaultLiftTime == 2500
DefaultEffectDuration == 3000
DefaultDuplicateOffset == 1000
DefaultVolume == 1
WaveformSamples == 2000
FramesPerMs == 48

----------------------------------------------------------------------------
(* Helpers for arrays and object spreads *)

Op(name, arg) == [op |-> name, arg |-> arg]

\* { ...f, ...u }
Merge(f, u) ==
    [k \in (DOMAIN f) \cup (DOMAIN u) |-> IF k \in DOMAIN u THEN u[k] ELSE f[k]]

\* an optional field of a Partial<T>: absent, or present with one of vals
OptField(k, vals) == { <<>> } \cup { k :> v : v \in vals }

Range(s) == { s[i] : i \in DOMAIN s }

\* array.filter
Filter(s, keep(_)) == SelectSeq(s, keep)

\* array.find: the first element that satisfies p, as a sequence of length <= 1
Find(s, p(_)) ==
    LET hits == Filter(s, p) IN IF hits = <<>> THEN <<>> ELSE <<Head(hits)>>

\* array.map
MapSeq(s, f(_)) == [i \in DOMAIN s |-> f(s[i])]

GenId(n) == <<"g1", "g2", "g3", "g4", "g5", "g6">>[n + 1]
GenIds == {"g1", "g2", "g3", "g4", "g5", "g6"}
CustomId(n) == <<"custom-1", "custom-2", "custom-3">>[n + 1]

----------------------------------------------------------------------------
(* The built-in library and the default show *)

defaultFireworksLibrary ==
    << [id |-> "lib-peony", fuseTime |-> 500, liftTime |-> 2500,
        effectDuration |-> 3000, totalDuration |-> 6000,
        preFiringOffset |-> 3000] >>

fireworkLibrary == defaultFireworksLibrary

NewTrack(id, type) == [id |-> id, type |-> type, muted |-> FALSE, solo |-> FALSE]

createDefaultShow ==
    [ name |-> "Untitled Show",
      duration |-> DefaultDuration,
      tracks |-> << NewTrack("audio-1", "audio"),
                    NewTrack("firework-1", "firework"),
                    NewTrack("firework-2", "firework"),
                    NewTrack("firework-3", "firework"),
                    NewTrack("firework-4", "firework") >>,
      audioClips |-> <<>>,
      fireworks |-> <<>>,
      customFireworks |-> <<>> ]

\* an empty Map (entries are kept in insertion order)
NoSources == <<>>

\* nothing has been exported yet
NoFile == [kind |-> "none"]

\* no conversion yet
NoMapping == [fn |-> "none"]

\* no request to /chat/stream yet
NoStream ==
    [phase |-> "idle", variant |-> "spawn", output |-> <<>>, stdout |-> <<>>,
     exitCode |-> "0", spawnFails |-> FALSE, errorEmitted |-> FALSE,
     messages |-> <<>>, throws |-> FALSE, buffer |-> <<>>,
     stopped |-> FALSE, thrown |-> <<>>, emitted |-> <<>>, failure |-> <<>>]
NoResponse == [subscribed |-> FALSE, ended |-> FALSE, sent |-> <<>>]

\* no call of generateRulerTicks yet
NoRuler ==
    [ startMs |-> 0, endMs |-> 0, pixelsPerSecond |-> 0,
      minorInterval |-> 0, majorInterval |-> 0, ticks |-> <<>> ]

Init ==
    /\ tracks = createDefaultShow.tracks
    /\ audioClips = createDefaultShow.audioClips
    /\ fireworks = createDefaultShow.fireworks
    /\ customFireworks = createDefaultShow.customFireworks
    /\ duration = createDefaultShow.duration
    /\ audioBuffers = {}
    /\ pendingDecodes = <<>>
    /\ nextId = 0
    /\ nextCustom = 0
    /\ playback = [isPlaying |-> FALSE, currentTime |-> 0, isLooping |-> FALSE]
    /\ player = [sources |-> NoSources, gainNodes |-> NoSources,
                 startTime |-> 0, pauseTime |-> 0, isPlaying |-> FALSE]
    /\ ctxTime = 0
    /\ timers = <<>>
    /\ liveNodes = [id \in GenIds |-> 0]
    /\ animationRef = FALSE
    /\ raised = "none"
    /\ lastOp = Op("init", 0)
    /\ showName = createDefaultShow.name
    /\ createdAt = 0
    /\ updatedAt = 0
    /\ dateNow = 0
    /\ exported = NoFile
    /\ ruler = NoRuler
    /\ mapped = NoMapping
    /\ claude = NoStream
    /\ response = NoResponse

----------------------------------------------------------------------------
(* Show actions *)

\* updatedAt: new Date() in an updater; the rest of the show's header is kept
Touch == updatedAt' = dateNow /\ UNCHANGED <<showName, createdAt>>

\* a handler that returns without a new show object
Untouched == UNCHANGED <<showName, createdAt, updatedAt>>

UpdateShowName(name) ==
    /\ showName' = name
    /\ updatedAt' = dateNow
    /\ lastOp' = Op("updateShowName", 0)
    /\ UNCHANGED <<tracks, audioClips, fireworks, customFireworks, duration,
                   audioBuffers, pendingDecodes, nextId, nextCustom, createdAt>>
    /\ UNCHANGED <<transportVars, ioVars>>

UpdateShowDuration(d) ==
    /\ duration' = d
    /\ lastOp' = Op("updateShowDuration", 0)
    /\ UNCHANGED <<tracks, audioClips, fireworks, customFireworks,
                   audioBuffers, pendingDecodes, nextId, nextCustom>>
    /\ Touch
    /\ UNCHANGED <<transportVars, ioVars>>

(* Track actions *)

AddTrack(type) ==
    /\ nextId < MaxIds
    /\ tracks' = Append(tracks, NewTrack(GenId(nextId), type))
    /\ nextId' = nextId + 1
    /\ lastOp' = Op("addTrack", 0)
    /\ UNCHANGED <<audioClips, fireworks, customFireworks, duration,
                   audioBuffers, pendingDecodes, nextCustom>>
    /\ Touch
    /\ UNCHANGED <<transportVars, ioVars>>

\* the number of clips and instances placed on a track
PlacedOn(trackId) ==
    Cardinality({ i \in DOMAIN audioClips : audioClips[i].trackId = trackId })
    + Cardinality({ i \in DOMAIN fireworks : fireworks[i].trackId = trackId })

\* removeTrack leaving the audio clips of the track in the show
RemoveTrack_KeepsClips(trackId) ==
    /\ LET keepT(t) == t.id # trackId
           keepC(c) == c.trackId # trackId
       IN /\ tracks' = Filter(tracks, keepT)
          /\ fireworks' = Filter(fireworks, keepC)
    /\ lastOp' = [op |-> "removeTrack", arg |-> trackId, placed |-> PlacedOn(trackId)]
    /\ UNCHANGED <<audioClips, customFireworks, duration, audioBuffers,
                   pendingDecodes, nextId, nextCustom>>
    /\ Touch
    /\ UNCHANGED <<transportVars, ioVars>>

RemoveTrack(trackId) ==
    /\ LET keepT(t) == t.id # trackId
           keepC(c) == c.trackId # trackId
       IN /\ tracks' = Filter(tracks, keepT)
          /\ audioClips' = Filter(audioClips, keepC)
          /\ fireworks' = Filter(fireworks, keepC)
    /\ lastOp' = [op |-> "removeTrack", arg |-> trackId, placed |-> PlacedOn(trackId)]
    /\ UNCHANGED <<customFireworks, duration, audioBuffers, pendingDecodes,
                   nextId, nextCustom>>
    /\ Touch
    /\ UNCHANGED <<transportVars, ioVars>>

UpdateTrack(trackId, updates) ==
    /\ LET upd(t) == IF t.id = trackId THEN Merge(t, updates) ELSE t
       IN tracks' = MapSeq(tracks, upd)
    /\ lastOp' = Op("updateTrack", 0)
    /\ UNCHANGED <<audioClips, fireworks, customFireworks, duration,
                   audioBuffers, pendingDecodes, nextId, nextCustom>>
    /\ Touch
    /\ UNCHANGED <<transportVars, ioVars>>

(* Audio clip actions *)

\* addAudioClip up to its await: the call is suspended in loadAudioFile
AddAudioClipStart(trackId, startTime) ==
    /\ Len(pendingDecodes) < MaxPending
    /\ pendingDecodes' = Append(pendingDecodes,
                                [trackId |-> trackId, startTime |-> startTime])
    /\ lastOp' = Op("addAudioClip", 0)
    /\ UNCHANGED <<tracks, audioClips, fireworks, customFireworks, duration,
                   audioBuffers, nextId, nextCustom>>
    /\ Untouched
    /\ UNCHANGED <<transportVars, ioVars>>

\* generateWaveformData(buffer, WaveformSamples) for a buffer that is not
\* silent: WaveformSamples block averages divided by the largest of them.
\* With fewer frames than blocks the block size is 0 and every average is
\* 0 / 0, so every entry is NaN; otherwise every entry is a number in [0, 1].
GenerateWaveformData(bufferMs) ==
    LET blockSize == (bufferMs * FramesPerMs) \div WaveformSamples
    IN [ length |-> WaveformSamples,
         entries |-> IF blockSize = 0 THEN "NaN" ELSE "number" ]

NewClip(clipId, call, bufferMs) ==
    [ id |-> clipId, startTime |-> call.startTime, duration |-> bufferMs,
      trimStart |-> 0, trimEnd |-> 0, volume |-> DefaultVolume,
      trackId |-> call.trackId,
      waveformData |-> GenerateWaveformData(bufferMs) ]

\* addAudioClip after its await adding the clip without keeping its buffer
AddAudioClipResolve_DropsBuffer(i, bufferMs) ==
    /\ i \in DOMAIN pendingDecodes
    /\ nextId < MaxIds
    /\ audioClips' = Append(audioClips, NewClip(GenId(nextId), pendingDecodes[i], bufferMs))
    /\ nextId' = nextId + 1
    /\ pendingDecodes' = [j \in 1..(Len(pendingDecodes) - 1) |->
                            IF j < i THEN pendingDecodes[j] ELSE pendingDecodes[j + 1]]
    /\ lastOp' = Op("addAudioClipDone", 0)
    /\ UNCHANGED <<tracks, fireworks, customFireworks, duration, nextCustom,
                   audioBuffers>>
    /\ Touch
    /\ UNCHANGED <<transportVars, ioVars>>

\* addAudioClip after its await, the decode having produced a buffer of bufferMs
AddAudioClipResolve(i, bufferMs) ==
    /\ i \in DOMAIN pendingDecodes
    /\ nextId < MaxIds
    /\ LET clipId == GenId(nextId)
       IN /\ audioBuffers' = audioBuffers \cup {[id |-> clipId, duration |-> bufferMs]}
          /\ audioClips' = Append(audioClips, NewClip(clipId, pendingDecodes[i], bufferMs))
    /\ nextId' = nextId + 1
    /\ pendingDecodes' = [j \in 1..(Len(pendingDecodes) - 1) |->
                            IF j < i THEN pendingDecodes[j] ELSE pendingDecodes[j + 1]]
    /\ lastOp' = Op("addAudioClipDone", 0)
    /\ UNCHANGED <<tracks, fireworks, customFireworks, duration, nextCustom>>
    /\ Touch
    /\ UNCHANGED <<transportVars, ioVars>>

\* a catch block that logs the error and ends there
Rethrown_Swallowed(e) == "none"

\* catch (error) { console.error(...); throw error; }: what is left of the error e
Rethrown(e) == e

\* addAudioClip after its await, the decode having failed: the error is rethrown
AddAudioClipReject(i) ==
    /\ i \in DOMAIN pendingDecodes
    /\ pendingDecodes' = [j \in 1..(Len(pendingDecodes) - 1) |->
                            IF j < i THEN pendingDecodes[j] ELSE pendingDecodes[j + 1]]
    /\ raised' = Rethrown("EncodingError")
    /\ lastOp' = Op("addAudioClipFailed", 0)
    /\ UNCHANGED <<tracks, audioClips, fireworks, customFireworks, duration,
                   audioBuffers, nextId, nextCustom>>
    /\ Untouched
    /\ UNCHANGED <<playback, player, ctxTime, timers, liveNodes, animationRef>>
    /\ UNCHANGED ioVars

UpdateAudioClip(clipId, updates) ==
    /\ LET upd(c) == IF c.id = clipId THEN Merge(c, updates) ELSE c
       IN audioClips' = MapSeq(audioClips, upd)
    /\ lastOp' = Op("updateAudioClip", 0)
    /\ UNCHANGED <<tracks, fireworks, customFireworks, duration,
                   audioBuffers, pendingDecodes, nextId, nextCustom>>
    /\ Touch
    /\ UNCHANGED <<transportVars, ioVars>>

RemoveAudioClip(clipId) ==
    /\ LET keep(c) == c.id # clipId
       IN audioClips' = Filter(audioClips, keep)
    /\ audioBuffers' = { b \in audioBuffers : b.id # clipId }
    /\ lastOp' = Op("removeAudioClip", 0)
    /\ UNCHANGED <<tracks, fireworks, customFireworks, duration,
                   pendingDecodes, nextId, nextCustom>>
    /\ Touch
    /\ UNCHANGED <<transportVars, ioVars>>

(* Firework actions *)

\* [...fireworkLibrary, ...customFireworks].find((f) => f.id === defId)
FindDefinition(custom, defId) ==
    LET isDef(f) == f.id = defId IN Find(fireworkLibrary \o custom, isDef)

\* addFirework clamping the fire time at the start of the show
AddFirework_ClampsFireTime(fireworkDefId, trackId, visualTime) ==
    /\ LET fireworkDef == FindDefinition(customFireworks, fireworkDefId)
           fireTime == visualTime - fireworkDef[1].preFiringOffset
       IN IF fireworkDef = <<>>
          THEN UNCHANGED <<fireworks, nextId>> /\ Untouched
          ELSE /\ nextId < MaxIds
               /\ Touch
               /\ fireworks' = Append(fireworks,
                    [ id |-> GenId(nextId),
                      fireworkId |-> fireworkDefId,
                      visualTime |-> visualTime,
                      fireTime |-> IF fireTime < 0 THEN 0 ELSE fireTime,
                      position |-> [x |-> 0, angle |-> 90],
                      trackId |-> trackId ])
               /\ nextId' = nextId + 1
    /\ lastOp' = Op("addFirework", 0)
    /\ UNCHANGED <<tracks, audioClips, customFireworks, duration,
                   audioBuffers, pendingDecodes, nextCustom>>
    /\ UNCHANGED <<transportVars, ioVars>>

AddFirework(fireworkDefId, trackId, visualTime) ==
    /\ LET fireworkDef == FindDefinition(customFireworks, fireworkDefId)
       IN IF fireworkDef = <<>>
          THEN UNCHANGED <<fireworks, nextId>> /\ Untouched
          ELSE /\ nextId < MaxIds
               /\ Touch
               /\ fireworks' = Append(fireworks,
                    [ id |-> GenId(nextId),
                      fireworkId |-> fireworkDefId,
                      visualTime |-> visualTime,
                      fireTime |-> visualTime - fireworkDef[1].preFiringOffset,
                      position |-> [x |-> 0, angle |-> 90],
                      trackId |-> trackId ])
               /\ nextId' = nextId + 1
    /\ lastOp' = Op("addFirework", 0)
    /\ UNCHANGED <<tracks, audioClips, customFireworks, duration,
                   audioBuffers, pendingDecodes, nextCustom>>
    /\ UNCHANGED <<transportVars, ioVars>>

\* updateFirework letting a fireTime named in the updates win over the recomputed one
UpdatedFireworks_GivenFireTimeWins(prevFireworks, prevCustom, fireworkId, updates) ==
    LET isIt(f) == f.id = fireworkId
        firework == Find(prevFireworks, isIt)
        fireworkDef == FindDefinition(prevCustom, firework[1].fireworkId)
        newUpdates ==
            IF "visualTime" \in DOMAIN updates /\ fireworkDef # <<>>
            THEN Merge([fireTime |-> updates.visualTime - fireworkDef[1].preFiringOffset],
                       updates)
            ELSE updates
        upd(f) == IF f.id = fireworkId THEN Merge(f, newUpdates) ELSE f
    IN IF firework = <<>> THEN prevFireworks ELSE MapSeq(prevFireworks, upd)

\* the updater of updateFirework: the fireworks array it returns
UpdatedFireworks(prevFireworks, prevCustom, fireworkId, updates) ==
    LET isIt(f) == f.id = fireworkId
        firework == Find(prevFireworks, isIt)
        fireworkDef == FindDefinition(prevCustom, firework[1].fireworkId)
        newUpdates ==
            IF "visualTime" \in DOMAIN updates /\ fireworkDef # <<>>
            THEN Merge(updates,
                       [fireTime |-> updates.visualTime - fireworkDef[1].preFiringOffset])
            ELSE updates
        upd(f) == IF f.id = fireworkId THEN Merge(f, newUpdates) ELSE f
    IN IF firework = <<>> THEN prevFireworks ELSE MapSeq(prevFireworks, upd)

UpdateFirework(fireworkId, updates) ==
    /\ fireworks' = UpdatedFireworks(fireworks, customFireworks, fireworkId, updates)
    /\ IF \E f \in Range(fireworks) : f.id = fireworkId THEN Touch ELSE Untouched
    /\ lastOp' = Op("updateFirework", 0)
    /\ UNCHANGED <<tracks, audioClips, customFireworks, duration,
                   audioBuffers, pendingDecodes, nextId, nextCustom>>
    /\ UNCHANGED <<transportVars, ioVars>>

RemoveFirework(fireworkId) ==
    /\ LET keep(f) == f.id # fireworkId
       IN fireworks' = Filter(fireworks, keep)
    /\ lastOp' = Op("removeFirework", 0)
    /\ UNCHANGED <<tracks, audioClips, customFireworks, duration,
                   audioBuffers, pendingDecodes, nextId, nextCustom>>
    /\ Touch
    /\ UNCHANGED <<transportVars, ioVars>>

\* duplicateFirework shifting the visual time only
DuplicateFirework_KeepsFireTime(fireworkId, offsetMs) ==
    /\ LET isIt(f) == f.id = fireworkId
           original == Find(fireworks, isIt)
       IN IF original = <<>>
          THEN UNCHANGED <<fireworks, nextId>> /\ Untouched
          ELSE /\ nextId < MaxIds
               /\ Touch
               /\ fireworks' = Append(fireworks,
                    [original[1] EXCEPT !.id = GenId(nextId),
                                        !.visualTime = original[1].visualTime + offsetMs])
               /\ nextId' = nextId + 1
    /\ lastOp' = Op("duplicateFirework", 0)
    /\ UNCHANGED <<tracks, audioClips, customFireworks, duration,
                   audioBuffers, pendingDecodes, nextCustom>>
    /\ UNCHANGED <<transportVars, ioVars>>

DuplicateFirework(fireworkId, offsetMs) ==
    /\ LET isIt(f) == f.id = fireworkId
           original == Find(fireworks, isIt)
       IN IF original = <<>>
          THEN UNCHANGED <<fireworks, nextId>> /\ Untouched
          ELSE /\ nextId < MaxIds
               /\ Touch
               /\ fireworks' = Append(fireworks,
                    [original[1] EXCEPT !.id = GenId(nextId),
                                        !.visualTime = original[1].visualTime + offsetMs,
                                        !.fireTime = original[1].fireTime + offsetMs])
               /\ nextId' = nextId + 1
    /\ lastOp' = Op("duplicateFirework", 0)
    /\ UNCHANGED <<tracks, audioClips, customFireworks, duration,
                   audioBuffers, pendingDecodes, nextCustom>>
    /\ UNCHANGED <<transportVars, ioVars>>

(* Custom firework definitions *)

\* JavaScript's x || d on a number: d when x is 0 (an emptied number input is 0)
OrDefault(x, d) == IF x = 0 THEN d ELSE x

\* AddFireworkForm.handleSubmit: the definition built from the form's fields
FormDefinition(id, fuseTime, liftTime, effectDuration) ==
    LET preFiringOffset == OrDefault(fuseTime, 0) + OrDefault(liftTime, 0)
        totalDuration == preFiringOffset + OrDefault(effectDuration, 0)
    IN [ id |-> id,
         fuseTime |-> OrDefault(fuseTime, DefaultFuseTime),
         liftTime |-> OrDefault(liftTime, DefaultLiftTime),
         effectDuration |-> OrDefault(effectDuration, DefaultEffectDuration),
         totalDuration |-> totalDuration,
         preFiringOffset |-> preFiringOffset ]

\* addCustomFirework keeping only the new definition
AddCustomFirework_ReplacesList(firework) ==
    /\ customFireworks' = <<firework>>
    /\ lastOp' = Op("addCustomFirework", 0)
    /\ UNCHANGED <<tracks, audioClips, fireworks, duration,
                   audioBuffers, pendingDecodes, nextId>>
    /\ Touch
    /\ UNCHANGED <<transportVars, ioVars>>

AddCustomFirework(firework) ==
    /\ customFireworks' = Append(customFireworks, firework)
    /\ lastOp' = Op("addCustomFirework", 0)
    /\ UNCHANGED <<tracks, audioClips, fireworks, duration,
                   audioBuffers, pendingDecodes, nextId>>
    /\ Touch
    /\ UNCHANGED <<transportVars, ioVars>>

\* submitting the add-custom-firework form
SubmitAddFireworkForm(fuseTime, liftTime, effectDuration) ==
    /\ nextCustom < MaxCustom
    /\ nextCustom' = nextCustom + 1
    /\ AddCustomFirework(FormDefinition(CustomId(nextCustom),
                                        fuseTime, liftTime, effectDuration))

(* Save and load *)

\* a file that is not JSON
GarbageFile == [kind |-> "text"]

\* Date.prototype.toJSON: the ISO string of the date, to the millisecond
ToISOString(date) == <<"iso", date>>

\* new Date(isoString)
DateOf(str) == str[2]

\* JSON.stringify on an array of numbers: NaN is written as null
WaveformJson(w) == [w EXCEPT !.entries = IF @ = "NaN" THEN "null" ELSE @]

ClipJson(c) == [c EXCEPT !.waveformData = WaveformJson(@)]

\* JSON.stringify(show): dates become strings, the rest keeps its structure
Stringify(s) ==
    [ kind |-> "json",
      value |-> [s EXCEPT !.createdAt = ToISOString(@),
                          !.updatedAt = ToISOString(@),
                          !.audioClips = MapSeq(@, ClipJson)] ]

\* the show object: the fields of FireworkShow
Show ==
    [ name |-> showName, createdAt |-> createdAt, updatedAt |-> updatedAt,
      duration |-> duration, tracks |-> tracks, audioClips |-> audioClips,
      fireworks |-> fireworks, customFireworks |-> customFireworks ]

\* exportShow: the show is serialized and downloaded
ExportShow ==
    /\ exported' = Stringify(Show)
    /\ lastOp' = Op("exportShow", 0)
    /\ UNCHANGED <<showVars, transportVars, dateNow, ruler, mapped, serverVars>>

\* JSON.parse(data) throws
ParseThrows(file) == file.kind # "json"

\* { ...parsed, createdAt: new Date(parsed.createdAt), updatedAt: new Date() }
ImportedShow(parsed, now) ==
    [parsed EXCEPT !.createdAt = DateOf(@), !.updatedAt = now]

\* catch (error) { console.error(...) }: what is left of the error e
Logged(e) == "none"

\* importShow putting the parsed show in place before it fails
ImportShow_ResetsOnFailure(file) ==
    /\ LET s == IF ParseThrows(file)
                THEN [createDefaultShow EXCEPT !.name = ""]
                     @@ [createdAt |-> dateNow, updatedAt |-> dateNow]
                ELSE ImportedShow(file.value, dateNow)
       IN /\ showName' = s.name
          /\ createdAt' = s.createdAt
          /\ updatedAt' = s.updatedAt
          /\ duration' = s.duration
          /\ tracks' = s.tracks
          /\ audioClips' = s.audioClips
          /\ fireworks' = s.fireworks
          /\ customFireworks' = s.customFireworks
    /\ raised' = IF ParseThrows(file) THEN Logged("SyntaxError") ELSE "none"
    /\ lastOp' = Op(IF ParseThrows(file) THEN "importShowFailed" ELSE "importShow", 0)
    /\ UNCHANGED <<audioBuffers, pendingDecodes, nextId, nextCustom>>
    /\ UNCHANGED <<playback, player, ctxTime, timers, liveNodes, animationRef>>
    /\ UNCHANGED ioVars

ImportShow(file) ==
    /\ file # NoFile
    /\ IF ParseThrows(file)
       THEN /\ raised' = Logged("SyntaxError")
            /\ UNCHANGED <<showName, createdAt, updatedAt, duration, tracks,
                           audioClips, fireworks, customFireworks>>
       ELSE LET s == ImportedShow(file.value, dateNow)
            IN /\ showName' = s.name
               /\ createdAt' = s.createdAt
               /\ updatedAt' = s.updatedAt
               /\ duration' = s.duration
               /\ tracks' = s.tracks
               /\ audioClips' = s.audioClips
               /\ fireworks' = s.fireworks
               /\ customFireworks' = s.customFireworks
               /\ raised' = "none"
    /\ lastOp' = Op(IF ParseThrows(file) THEN "importShowFailed" ELSE "importShow", 0)
    /\ UNCHANGED <<audioBuffers, pendingDecodes, nextId, nextCustom>>
    /\ UNCHANGED <<playback, player, ctxTime, timers, liveNodes, animationRef>>
    /\ UNCHANGED ioVars

\* time passes on the wall clock
AdvanceDate ==
    /\ dateNow < MaxDate
    /\ dateNow' = dateNow + 1
    /\ UNCHANGED <<showVars, transportVars, exported, ruler, lastOp, mapped,
                   serverVars>>

----------------------------------------------------------------------------
(* AudioPlayer *)

\* Map.set, one entry after another: an entry replaces the one with its key
RECURSIVE SetAll(_, _)
SetAll(map, entries) ==
    IF entries = <<>> THEN map
    ELSE LET e == Head(entries)
             set == IF \E i \in DOMAIN map : map[i].id = e.id
                    THEN [i \in DOMAIN map |-> IF map[i].id = e.id THEN e ELSE map[i]]
                    ELSE Append(map, e)
         IN SetAll(set, Tail(entries))

\* source.stop(): a source on which start() was never called throws
StopSource(s) == IF s.started THEN "none" ELSE "InvalidStateError"

\* a catch block that lets the error through
Caught_Rethrows(e) == e

\* try { source.stop() } catch { }: what is left of the error e
Caught(e) == "none"

\* the registered sources stop() gets through: all of them, or those before
\* the first one whose error escapes
StopReach(p) ==
    LET escapes == { i \in DOMAIN p.sources :
                       Caught(StopSource(p.sources[i])) # "none" }
    IN IF escapes = {} THEN Len(p.sources)
       ELSE (CHOOSE i \in escapes : \A j \in escapes : i <= j) - 1

\* the error that escapes stop(), or "none"
StopEscaped(p) ==
    IF StopReach(p) = Len(p.sources) THEN "none"
    ELSE Caught(StopSource(p.sources[StopReach(p) + 1]))

\* stop() clearing its maps without stopping the sources
StoppedNodes_NotStopped(p, live) == live

\* source.stop() on every registered source: a source that was started stops,
\* one that never started throws and the error is swallowed
StoppedNodes(p, live) ==
    [id \in DOMAIN live |->
        IF \E i \in 1..StopReach(p) : p.sources[i].id = id /\ p.sources[i].started
        THEN live[id] - 1 ELSE live[id]]

\* AudioPlayer.stop: the player it leaves
PlayerStop(p) ==
    IF StopEscaped(p) = "none"
    THEN [p EXCEPT !.sources = NoSources, !.gainNodes = NoSources, !.isPlaying = FALSE]
    ELSE p

\* the source play() creates for one clip, and whether and how it starts it;
\* source.start with a negative duration throws a RangeError
SourceFor(clip, currentTimeMs, now) ==
    LET clipStartTime == clip.startTimeMs
        trimStart == clip.trimStartMs
        span == clip.buffer - trimStart - clip.trimEndMs
        playbackOffset == currentTimeMs - clipStartTime
    IN IF playbackOffset >= 0 /\ playbackOffset < span
       THEN [id |-> clip.id, started |-> TRUE, throws |-> FALSE, when |-> 0,
             offset |-> trimStart + playbackOffset, span |-> span - playbackOffset]
       ELSE IF playbackOffset < 0
       THEN [id |-> clip.id, started |-> span >= 0, throws |-> span < 0,
             when |-> now - playbackOffset, offset |-> trimStart, span |-> span]
       ELSE [id |-> clip.id, started |-> FALSE, throws |-> FALSE, when |-> 0,
             offset |-> 0, span |-> 0]

GainFor(clip) == [id |-> clip.id, gain |-> clip.volume]

\* TRUE iff play() is left by the error of a source.start
PlayThrows(clips, currentTimeMs, now) ==
    \E i \in DOMAIN clips : SourceFor(clips[i], currentTimeMs, now).throws

\* the clips play() registers: all of them, or those before the one whose
\* source.start throws
Registered(clips, currentTimeMs, now) ==
    LET throwing == { i \in DOMAIN clips : SourceFor(clips[i], currentTimeMs, now).throws }
    IN IF throwing = {} THEN clips
       ELSE SubSeq(clips, 1, (CHOOSE i \in throwing : \A j \in throwing : i <= j) - 1)

\* play() anchoring the clock at the hardware clock, whatever the position
PlayerPlay_AnchorsAtNow(p, clips, currentTimeMs, now) ==
    LET stopped == PlayerStop(p)
        src(c) == SourceFor(c, currentTimeMs, now)
        done == Registered(clips, currentTimeMs, now)
    IN [stopped EXCEPT !.isPlaying = TRUE,
                       !.startTime = now,
                       !.sources = SetAll(stopped.sources, MapSeq(done, src)),
                       !.gainNodes = SetAll(stopped.gainNodes, MapSeq(done, GainFor))]

\* AudioPlayer.play: the player it leaves
PlayerPlay(p, clips, currentTimeMs, now) ==
    LET stopped == PlayerStop(p)
        src(c) == SourceFor(c, currentTimeMs, now)
        done == Registered(clips, currentTimeMs, now)
    IN [stopped EXCEPT !.isPlaying = TRUE,
                       !.startTime = now - currentTimeMs,
                       !.sources = SetAll(stopped.sources, MapSeq(done, src)),
                       !.gainNodes = SetAll(stopped.gainNodes, MapSeq(done, GainFor))]

\* play() starting its sources without stopping those of the run before
PlayedNodes_WithoutStop(p, live, clips, currentTimeMs, now) ==
    LET done == Registered(clips, currentTimeMs, now)
    IN [id \in DOMAIN live |->
          live[id] + Cardinality({ i \in DOMAIN done :
                                     /\ done[i].id = id
                                     /\ SourceFor(done[i], currentTimeMs, now).started })]

\* AudioPlayer.play: the source nodes running after it
PlayedNodes(p, live, clips, currentTimeMs, now) ==
    LET stopped == StoppedNodes(p, live)
        done == Registered(clips, currentTimeMs, now)
    IN [id \in DOMAIN live |->
          stopped[id] + Cardinality({ i \in DOMAIN done :
                                        /\ done[i].id = id
                                        /\ SourceFor(done[i], currentTimeMs, now).started })]

GetCurrentTime(p, now) == IF ~p.isPlaying THEN p.pauseTime ELSE now - p.startTime

----------------------------------------------------------------------------
(* Playback controls *)

\* the clips handlePlay and the restart of handleSeek hand to the player
EligibleClips(showTracks, showClips, buffers) ==
    LET unmuted(clip) == \E i \in DOMAIN showTracks :
                            /\ showTracks[i].id = clip.trackId
                            /\ \A j \in 1..(i - 1) : showTracks[j].id # clip.trackId
                            /\ ~showTracks[i].muted
        hasBuffer(clip) == \E b \in buffers : b.id = clip.id
        toPlayerClip(clip) ==
            [ id |-> clip.id,
              buffer |-> (CHOOSE b \in buffers : b.id = clip.id).duration,
              startTimeMs |-> clip.startTime,
              volume |-> clip.volume,
              trimStartMs |-> clip.trimStart,
              trimEndMs |-> clip.trimEnd ]
        kept(clip) == unmuted(clip) /\ hasBuffer(clip)
    IN MapSeq(Filter(showClips, kept), toPlayerClip)

HandlePlay ==
    /\ ~playback.isPlaying
    /\ LET clips == EligibleClips(tracks, audioClips, audioBuffers)
       IN /\ player' = PlayerPlay(player, clips, playback.currentTime, ctxTime)
          /\ liveNodes' = PlayedNodes(player, liveNodes, clips, playback.currentTime, ctxTime)
          /\ IF PlayThrows(clips, playback.currentTime, ctxTime)
             THEN \* the error leaves handlePlay before setPlayback
                  /\ raised' = "RangeError"
                  /\ UNCHANGED <<playback, animationRef>>
             ELSE /\ raised' = "none"
                  /\ playback' = [playback EXCEPT !.isPlaying = TRUE]
                  /\ animationRef' = TRUE
    /\ lastOp' = [op |-> "play", arg |-> playback.currentTime, at |-> ctxTime]
    /\ UNCHANGED <<ctxTime, timers>>
    /\ UNCHANGED <<showVars, ioVars>>

\* the registered sources on which start() was never called
Unstarted(p) == Cardinality({ i \in DOMAIN p.sources : ~p.sources[i].started })

HandlePause ==
    /\ playback.isPlaying
    /\ player' = PlayerStop(player)
    /\ liveNodes' = StoppedNodes(player, liveNodes)
    /\ raised' = StopEscaped(player)
    /\ IF StopEscaped(player) = "none"
       THEN /\ playback' = [playback EXCEPT !.isPlaying = FALSE,
                                            !.currentTime = GetCurrentTime(player', ctxTime)]
            /\ animationRef' = FALSE
       ELSE UNCHANGED <<playback, animationRef>>
    /\ lastOp' = Op("pause", Unstarted(player))
    /\ UNCHANGED <<ctxTime, timers>>
    /\ UNCHANGED <<showVars, ioVars>>

\* handleStop leaving the playhead where it was
StoppedPlayback_KeepsTime(prev) == [prev EXCEPT !.isPlaying = FALSE]

\* the updater of handleStop
StoppedPlayback(prev) == [prev EXCEPT !.isPlaying = FALSE, !.currentTime = 0]

HandleStop ==
    /\ player' = PlayerStop(player)
    /\ liveNodes' = StoppedNodes(player, liveNodes)
    /\ raised' = StopEscaped(player)
    /\ IF StopEscaped(player) = "none"
       THEN /\ playback' = StoppedPlayback(playback)
            /\ animationRef' = FALSE
       ELSE UNCHANGED <<playback, animationRef>>
    /\ lastOp' = Op("stop", IF lastOp.op = "stop" THEN 2 ELSE 1)
    /\ UNCHANGED <<ctxTime, timers>>
    /\ UNCHANGED <<showVars, ioVars>>

\* handleSeek, with at most limit restart timers in flight
HandleSeekWithin(time, limit) ==
    /\ LET wasPlaying == playback.isPlaying
       IN /\ IF wasPlaying
             THEN /\ Len(timers) < limit
                  /\ player' = PlayerStop(player)
                  /\ liveNodes' = StoppedNodes(player, liveNodes)
                  /\ raised' = StopEscaped(player)
                  /\ IF StopEscaped(player) = "none"
                     THEN /\ timers' = Append(timers,
                                [ due |-> ctxTime + RestartDelay,
                                  time |-> time,
                                  clips |-> EligibleClips(tracks, audioClips,
                                                          audioBuffers),
                                  behind |-> Len(timers) ])
                          /\ playback' = [playback EXCEPT !.currentTime = time]
                     ELSE UNCHANGED <<timers, playback>>
             ELSE /\ raised' = "none"
                  /\ playback' = [playback EXCEPT !.currentTime = time]
                  /\ UNCHANGED <<player, liveNodes, timers>>
          /\ lastOp' = [op |-> "seek", arg |-> time, wasPlaying |-> wasPlaying]
    /\ UNCHANGED <<ctxTime, animationRef>>
    /\ UNCHANGED <<showVars, ioVars>>

HandleSeek(time) == HandleSeekWithin(time, MaxTimers)

\* the callback handleSeek handed to setTimeout
RestartTimer ==
    /\ timers # <<>>
    /\ Head(timers).due <= ctxTime
    /\ LET t == Head(timers)
       IN /\ player' = PlayerPlay(player, t.clips, t.time, ctxTime)
          /\ liveNodes' = PlayedNodes(player, liveNodes, t.clips, t.time, ctxTime)
          /\ raised' = IF PlayThrows(t.clips, t.time, ctxTime)
                       THEN "RangeError" ELSE "none"
    /\ timers' = Tail(timers)
    /\ lastOp' = Op("restart", Head(timers).behind)
    /\ UNCHANGED <<playback, ctxTime, animationRef>>
    /\ UNCHANGED <<showVars, ioVars>>

\* the end test with > for >=
ReachedEnd_Strict(currentTime, showDuration) == currentTime > showDuration

\* currentTime >= show.duration
ReachedEnd(currentTime, showDuration) == currentTime >= showDuration

\* updateTime, the callback of the playback loop
Tick ==
    /\ animationRef
    /\ LET currentTime == GetCurrentTime(player, ctxTime)
       IN IF ReachedEnd(currentTime, duration)
          THEN IF playback.isLooping /\ "loopStart" \in DOMAIN playback
               THEN \* handleSeek(playback.loopStart) of the render that started the loop
                    /\ Len(timers) < MaxTimers
                    /\ player' = PlayerStop(player)
                    /\ liveNodes' = StoppedNodes(player, liveNodes)
                    /\ timers' = Append(timers,
                          [ due |-> ctxTime + RestartDelay,
                            time |-> playback.loopStart,
                            clips |-> EligibleClips(tracks, audioClips, audioBuffers),
                            behind |-> Len(timers) ])
                    /\ playback' = [playback EXCEPT !.currentTime = currentTime]
                    /\ animationRef' = TRUE
                    /\ lastOp' = Op("tick", 2)
               ELSE \* handleStop(); return
                    /\ player' = PlayerStop(player)
                    /\ liveNodes' = StoppedNodes(player, liveNodes)
                    /\ playback' = StoppedPlayback(playback)
                    /\ animationRef' = FALSE
                    /\ lastOp' = Op("tick", 1)
                    /\ UNCHANGED timers
          ELSE /\ playback' = [playback EXCEPT !.currentTime = currentTime]
               /\ animationRef' = TRUE
               /\ lastOp' = Op("tick", 0)
               /\ UNCHANGED <<player, liveNodes, timers>>
    /\ raised' = "none"
    /\ UNCHANGED ctxTime
    /\ UNCHANGED <<showVars, ioVars>>

\* the audio hardware clock advances; a restart that is due runs first
AdvanceClock ==
    /\ ctxTime + Quantum <= MaxClock
    /\ IF timers = <<>> THEN TRUE ELSE Head(timers).due > ctxTime
    /\ ctxTime' = ctxTime + Quantum
    /\ UNCHANGED <<playback, player, timers, liveNodes, animationRef, raised, lastOp>>
    /\ UNCHANGED <<showVars, ioVars>>

----------------------------------------------------------------------------
(* Inputs of the handlers *)

TrackIdInputs == {"audio-1", "firework-1"}
FireworkTrackInputs == {"firework-1"}
IssuedIds == { GenId(n) : n \in 0..(nextId - 1) }
UnknownId == GenId(nextId)
IssuedOrNextIds == IssuedIds \cup {UnknownId}
DefinitionIdInputs == {"lib-peony", "custom-1"}
VisualTimeInputs == {2000}
FuseTimeInputs == {0, 500}
LiftTimeInputs == {2500}
EffectDurationInputs == {3000}

\* Partial<TimelineFirework> values handed to updateFirework
FireworkUpdates ==
    { a @@ b @@ c @@ d :
        a \in OptField("visualTime", {7000}),
        b \in OptField("fireTime", {1}),
        c \in OptField("fireworkId", {"custom-1"}),
        d \in OptField("notes", {"n"}) }

\* Partial<AudioClip> values handed to updateAudioClip
ClipUpdates ==
    { a @@ b @@ c @@ d :
        a \in OptField("startTime", {50}),
        b \in OptField("trimStart", {0, 75}),
        c \in OptField("trimEnd", {0, 50}),
        d \in OptField("volume", {0}) }

BufferInputs == {100}

----------------------------------------------------------------------------
(* The firework side of the show store *)

NextFireworks ==
    \/ \E d \in DefinitionIdInputs, t \in FireworkTrackInputs, v \in VisualTimeInputs :
          AddFirework(d, t, v)
    \/ \E id \in IssuedIds, u \in FireworkUpdates : UpdateFirework(id, u)
    \/ UpdateFirework(UnknownId, [visualTime |-> 7000])
    \/ \E id \in IssuedOrNextIds : RemoveFirework(id)
    \/ \E id \in IssuedOrNextIds : DuplicateFirework(id, DefaultDuplicateOffset)
    \/ \E f \in FuseTimeInputs, l \in LiftTimeInputs, e \in EffectDurationInputs :
          SubmitAddFireworkForm(f, l, e)
    \/ \E t \in FireworkTrackInputs : RemoveTrack(t)

SpecFireworks == Init /\ [][NextFireworks]_vars

\* The show store as driven by placing instances, editing them and adding
\* custom definitions: the states the updater is applied to
NextFireworkUpdates ==
    \/ \E d \in DefinitionIdInputs, t \in FireworkTrackInputs, v \in VisualTimeInputs :
          AddFirework(d, t, v)
    \/ \E id \in IssuedIds, u \in FireworkUpdates : UpdateFirework(id, u)
    \/ UpdateFirework(UnknownId, [visualTime |-> 7000])
    \/ \E f \in FuseTimeInputs, l \in LiftTimeInputs, e \in EffectDurationInputs :
          SubmitAddFireworkForm(f, l, e)

SpecFireworkUpdates == Init /\ [][NextFireworkUpdates]_vars

(* The audio clip side of the show store *)

NextClips ==
    \/ \E t \in TrackIdInputs : AddAudioClipStart(t, 0)
    \/ \E i \in DOMAIN pendingDecodes, b \in BufferInputs : AddAudioClipResolve(i, b)
    \/ \E i \in DOMAIN pendingDecodes : AddAudioClipReject(i)
    \/ \E id \in IssuedOrNextIds, u \in ClipUpdates : UpdateAudioClip(id, u)
    \/ \E id \in IssuedOrNextIds : RemoveAudioClip(id)
    \/ \E t \in TrackIdInputs : RemoveTrack(t)

SpecClips == Init /\ [][NextClips]_vars

----------------------------------------------------------------------------
(* Claims about the show store *)

AllDefinitions == Range(fireworkLibrary) \cup Range(customFireworks)

Resolves(f) == FindDefinition(customFireworks, f.fireworkId) # <<>>
DefinitionOf(f) == FindDefinition(customFireworks, f.fireworkId)[1]

\* C3: in every reachable state every placed firework whose definition
\* resolves has fireTime = visualTime - preFiringOffset of that definition.
C3_FireTimeDerived ==
    \A f \in Range(fireworks) :
        Resolves(f) => f.fireTime = f.visualTime - DefinitionOf(f).preFiringOffset

C5_DerivedOffsets ==
    \A d \in AllDefinitions :
        /\ d.preFiringOffset = d.fuseTime + d.liftTime
        /\ d.totalDuration = d.preFiringOffset + d.effectDuration

\* C6: in every reachable state every audio clip has trimStart + trimEnd <=
\* duration.
C6_TrimWithinDuration ==
    \A c \in Range(audioClips) : c.trimStart + c.trimEnd <= c.duration

----------------------------------------------------------------------------
(* Tracks and what is placed on them *)

\* the lanes of the timeline a firework is dropped on, and that are removed
TrackLaneInputs == {"audio-1", "firework-1", "firework-2"}

NextTracks ==
    \/ \E type \in {"audio", "firework"} : AddTrack(type)
    \/ \E t \in TrackLaneInputs : RemoveTrack(t)
    \/ \E t \in TrackLaneInputs, v \in VisualTimeInputs : AddFirework("lib-peony", t, v)
    \/ AddAudioClipStart("audio-1", 0)
    \/ \E i \in DOMAIN pendingDecodes, b \in BufferInputs : AddAudioClipResolve(i, b)

SpecTracks == Init /\ [][NextTracks]_vars

\* C19: removeTrack(id) removes, in one step, the track and every audio clip
\* and firework instance whose trackId is id, and leaves every other track,
\* clip and instance as it was, in the order it had.
C19_RemoveTrackCascades ==
    [][ (lastOp'.op = "removeTrack" /\ RemoveTrack(lastOp'.arg)) =>
          LET id == lastOp'.arg
              Kept(s, other(_)) == { i \in DOMAIN s : other(s[i]) }
              Same(s, t, other(_)) ==
                  /\ Len(t) = Cardinality(Kept(s, other))
                  /\ \A i \in Kept(s, other) :
                        t[Cardinality({ j \in Kept(s, other) : j <= i })] = s[i]
              otherTrack(t) == t.id # id
              elsewhere(c) == c.trackId # id
          IN /\ Same(tracks, tracks', otherTrack)
             /\ Same(audioClips, audioClips', elsewhere)
             /\ Same(fireworks, fireworks', elsewhere)
             /\ UNCHANGED <<customFireworks, duration>> ]_vars

\* a track with something placed on it was removed, and something placed on
\* another track is still in the show
C19_Witness ==
    /\ lastOp.op = "removeTrack"
    /\ lastOp.placed >= 1
    /\ \A t \in Range(tracks) : t.id # lastOp.arg
    /\ fireworks # <<>> \/ audioClips # <<>>

\* C20: in every reachable state every firework instance is on a track of
\* kind 'firework' and every audio clip is on a track of kind 'audio'.
C20_KindConstrainsPlacement ==
    /\ \A f \in Range(fireworks) :
          \E t \in Range(tracks) : t.id = f.trackId /\ t.type = "firework"
    /\ \A c \in Range(audioClips) :
          \E t \in Range(tracks) : t.id = c.trackId /\ t.type = "audio"

----------------------------------------------------------------------------
(* The transport *)

SeekInputs == { 0 - Quantum, 2 * Quantum, duration, duration + Quantum }

NextTransport ==
    \/ /\ Len(audioClips) + Len(pendingDecodes) < MaxPlayedClips
       /\ AddAudioClipStart("audio-1", 0)
    \/ \E i \in DOMAIN pendingDecodes, b \in BufferInputs : AddAudioClipResolve(i, b)
    \/ HandlePlay
    \/ HandlePause
    \/ HandleStop
    \/ \E t \in SeekInputs : HandleSeek(t)
    \/ RestartTimer
    \/ Tick
    \/ AdvanceClock

SpecTransport == Init /\ [][NextTransport]_vars

----------------------------------------------------------------------------
(* Claims about the transport *)

Clamp(t, lo, hi) == IF t < lo THEN lo ELSE IF t > hi THEN hi ELSE t

RegisteredStarted(id) ==
    Cardinality({ i \in DOMAIN player.sources :
                    player.sources[i].id = id /\ player.sources[i].started })

\* C1: pause while playing leaves the transport not playing, with currentTime
\* equal to the clock reading just before the sources were stopped (stated
\* for readings within the show, 0 <= reading <= duration).
C1_PauseKeepsPosition ==
    [][ ( /\ HandlePause
          /\ GetCurrentTime(player, ctxTime) >= 0
          /\ GetCurrentTime(player, ctxTime) <= duration ) =>
          /\ ~playback'.isPlaying
          /\ playback'.currentTime = GetCurrentTime(player, ctxTime) ]_vars

\* C2: at most one source per clip id is running at any moment, every running
\* source is the one the player has registered for its clip, and while the
\* player is stopped (as between the stop of a seek and its delayed restart)
\* no source is running: the sources of a restart start after the old ones
\* have stopped.
C2_OneSourcePerClip ==
    \A id \in DOMAIN liveNodes :
        /\ liveNodes[id] <= 1
        /\ liveNodes[id] = RegisteredStarted(id)
        /\ ~player.isPlaying => liveNodes[id] = 0

\* the delayed restart of a seek has run and started a source
C2_Witness ==
    /\ lastOp.op = "restart"
    /\ player.isPlaying
    /\ \E id \in DOMAIN liveNodes : liveNodes[id] = 1

\* C7: seek(t) sets currentTime to clamp(t, 0, duration), for every t.
C7_SeekClamps ==
    [][ \A t \in SeekInputs :
          HandleSeek(t) => playback'.currentTime = Clamp(t, 0, duration) ]_vars

\* C8: stop leaves the transport not playing at 0 with no source registered
\* or running, and a stop that follows a stop changes nothing.
C8_StopResetsAndIsIdempotent ==
    [][ HandleStop =>
          /\ ~playback'.isPlaying
          /\ playback'.currentTime = 0
          /\ player'.sources = NoSources
          /\ player'.gainNodes = NoSources
          /\ \A id \in DOMAIN liveNodes : liveNodes'[id] = 0
          /\ lastOp.op = "stop" =>
                UNCHANGED <<playback, player, ctxTime, timers, liveNodes,
                            animationRef, raised, showVars>> ]_vars

\* stop has run twice in a row, with a clip in the show and the clock advanced
C8_Witness ==
    /\ lastOp = Op("stop", 2)
    /\ audioClips # <<>>
    /\ ctxTime > 0

\* C9: a playback tick that reads a clock at or past show.duration, without
\* looping, stops the transport: not playing, currentTime 0, no source
\* registered or running, and no further tick scheduled.
C9_TickStopsAtEnd ==
    [][ ( /\ lastOp'.op = "tick"
          /\ Tick
          /\ GetCurrentTime(player, ctxTime) >= duration
          /\ ~(playback.isLooping /\ "loopStart" \in DOMAIN playback) ) =>
          /\ ~playback'.isPlaying
          /\ playback'.currentTime = 0
          /\ player'.sources = NoSources
          /\ \A id \in DOMAIN liveNodes : liveNodes'[id] = 0
          /\ ~animationRef' ]_vars

\* a tick has found the end of the show and stopped the transport
C9_Witness ==
    /\ lastOp = Op("tick", 1)
    /\ ~playback.isPlaying
    /\ ctxTime > 0

\* C10: the tick that follows seek(duration), issued while playing without
\* looping, leaves the transport stopped with currentTime 0.
C10_SeekToEndStopsOnNextTick ==
    [][ ( /\ lastOp.op = "seek"
          /\ lastOp.wasPlaying
          /\ lastOp.arg = duration
          /\ ~(playback.isLooping /\ "loopStart" \in DOMAIN playback)
          /\ Tick ) =>
          /\ ~playback'.isPlaying
          /\ playback'.currentTime = 0 ]_vars

C18_StopNeverRaises ==
    [][ ( \/ (lastOp'.op = "stop" /\ HandleStop)
          \/ (lastOp'.op = "pause" /\ HandlePause) ) =>
            /\ raised' = "none"
            /\ player'.sources = NoSources
            /\ player'.gainNodes = NoSources
            /\ ~player'.isPlaying
            /\ \A id \in DOMAIN liveNodes : liveNodes'[id] = 0 ]_vars

\* pause has run on a player holding a source that was never started
C18_Witness ==
    /\ lastOp.op = "pause"
    /\ lastOp.arg >= 1
    /\ raised = "none"
    /\ player.sources = NoSources

----------------------------------------------------------------------------
(* The scheduler: clips that are moved and trimmed, then played *)

LongBufferInputs == {10000}

\* Partial<AudioClip> values of the clip inspector and of a clip drag
ClipGeometryUpdates ==
    { [startTime |-> 2000, trimStart |-> 1000, trimEnd |-> 500],
      [startTime |-> 2000, trimStart |-> 1000, trimEnd |-> 9500] }

SchedulerSeekInputs == {5000, 12000}

NextScheduler ==
    \/ AddAudioClipStart("audio-1", 0)
    \/ \E i \in DOMAIN pendingDecodes, b \in LongBufferInputs : AddAudioClipResolve(i, b)
    \/ \E id \in IssuedIds, u \in ClipGeometryUpdates : UpdateAudioClip(id, u)
    \/ HandlePlay
    \/ HandleStop
    \/ \E t \in SchedulerSeekInputs : HandleSeek(t)
    \/ RestartTimer
    \/ AdvanceClock

SpecScheduler == Init /\ [][NextScheduler]_vars

----------------------------------------------------------------------------
(* Claims about the scheduler *)

\* what handlePlay hands to the scheduler
PlayRun ==
    [ clips |-> EligibleClips(tracks, audioClips, audioBuffers),
      time |-> playback.currentTime ]

\* what the restart of a seek hands to the scheduler
RestartRun == [ clips |-> Head(timers).clips, time |-> Head(timers).time ]

PlayableSpan(c) == c.buffer - c.trimStartMs - c.trimEndMs

\* every handed clip whose window holds run.time has a source that play()
\* started at once, at trimStart + (time - startTime), for what is left
InWindowStarted(run) ==
    \A i \in DOMAIN run.clips :
        LET c == run.clips[i]
            into == run.time - c.startTimeMs
        IN (into >= 0 /\ into < PlayableSpan(c)) =>
              \E j \in DOMAIN player'.sources :
                  LET src == player'.sources[j]
                  IN /\ src.id = c.id
                     /\ src.started
                     /\ src.when = 0
                     /\ src.offset = c.trimStartMs + into
                     /\ src.span = PlayableSpan(c) - into

\* C13: when the scheduler runs (play, or the restart after a seek) at a time
\* inside a handed clip's window, that clip's source is started at once at
\* offset trimStart + (currentTime - startTime) for the remaining span.
C13_InWindowStartsAtOffset ==
    [][ /\ (lastOp'.op = "play" /\ HandlePlay) => InWindowStarted(PlayRun)
        /\ (lastOp'.op = "restart" /\ RestartTimer) => InWindowStarted(RestartRun)
      ]_vars

\* every handed clip that starts after run.time has a source scheduled at
\* now + (startTime - time), at trimStart, for the whole playable span, and
\* every handed clip whose window is over has no started source
FutureScheduledElapsedSkipped(run) ==
    \A i \in DOMAIN run.clips :
        LET c == run.clips[i]
            into == run.time - c.startTimeMs
        IN /\ into < 0 =>
                \E j \in DOMAIN player'.sources :
                    LET src == player'.sources[j]
                    IN /\ src.id = c.id
                       /\ src.started
                       /\ src.when = ctxTime - into
                       /\ src.offset = c.trimStartMs
                       /\ src.span = PlayableSpan(c)
           /\ into >= PlayableSpan(c) =>
                /\ liveNodes'[c.id] = 0
                /\ \A j \in DOMAIN player'.sources :
                      player'.sources[j].id = c.id => ~player'.sources[j].started

\* C14: when the scheduler runs before a handed clip's startTime, the source
\* is scheduled at now + (startTime - currentTime) at offset trimStart for the
\* full playable span; when it runs at or past the end of the clip's window,
\* the clip's source is never started.
C14_FutureScheduledElapsedSkipped ==
    [][ /\ (lastOp'.op = "play" /\ HandlePlay) =>
              FutureScheduledElapsedSkipped(PlayRun)
        /\ (lastOp'.op = "restart" /\ RestartTimer) =>
              FutureScheduledElapsedSkipped(RestartRun)
      ]_vars

----------------------------------------------------------------------------
(* The mixer: tracks that are muted, soloed and removed, clips whose volume
   changes, around play and seek *)

MuteInputs == {"audio-1"}
SoloInputs == {"audio-1", "firework-1"}
VolumeInputs == {0}

NextMixer ==
    \/ /\ Len(audioClips) + Len(pendingDecodes) < MaxPlayedClips
       /\ AddAudioClipStart("audio-1", 0)
    \/ \E i \in DOMAIN pendingDecodes, b \in BufferInputs : AddAudioClipResolve(i, b)
    \/ \E t \in MuteInputs, b \in BOOLEAN : UpdateTrack(t, [muted |-> b])
    \/ \E t \in SoloInputs, b \in BOOLEAN : UpdateTrack(t, [solo |-> b])
    \/ \E t \in MuteInputs : RemoveTrack(t)
    \/ \E id \in IssuedIds, v \in VolumeInputs : UpdateAudioClip(id, [volume |-> v])
    \/ HandlePlay
    \/ HandlePause
    \/ HandleStop
    \/ HandleSeek(2 * Quantum)
    \/ RestartTimer
    \/ AdvanceClock

SpecMixer == Init /\ [][NextMixer]_vars

----------------------------------------------------------------------------
(* Claims about the mixer *)

\* the track of the show that holds the clip with this id, if any
TracksOfClip(clipId) ==
    { t \in Range(tracks) :
        \E c \in Range(audioClips) : c.id = clipId /\ c.trackId = t.id }

\* every handed clip is on a track of the show that is not muted
OnlyUnmuted(run) ==
    \A i \in DOMAIN run.clips :
        /\ TracksOfClip(run.clips[i].id) # {}
        /\ \A t \in TracksOfClip(run.clips[i].id) : ~t.muted

\* C15: every time the scheduler runs (play, or the restart after a seek) the
\* clips handed to it are on tracks that exist in the show and are not muted.
C15_OnlyUnmutedScheduled ==
    [][ /\ (lastOp'.op = "play" /\ HandlePlay) => OnlyUnmuted(PlayRun)
        /\ (lastOp'.op = "restart" /\ RestartTimer) => OnlyUnmuted(RestartRun)
      ]_vars

\* if a track of the show is solo, every handed clip is on a solo track
OnlySolo(run) ==
    (\E t \in Range(tracks) : t.solo) =>
        \A i \in DOMAIN run.clips :
            \A t \in TracksOfClip(run.clips[i].id) : t.solo

\* C16: if any track is marked solo when the scheduler runs, only clips on
\* solo tracks are handed to it.
C16_SoloOnly ==
    [][ /\ (lastOp'.op = "play" /\ HandlePlay) => OnlySolo(PlayRun)
        /\ (lastOp'.op = "restart" /\ RestartTimer) => OnlySolo(RestartRun)
      ]_vars

\* C17: while playing, updateAudioClip with a volume leaves the gain of the
\* clip's running source equal to the new volume, the source itself untouched.
C17_VolumeAppliedLive ==
    [][ \A id \in IssuedIds, v \in VolumeInputs :
          ( /\ lastOp'.op = "updateAudioClip"
            /\ UpdateAudioClip(id, [volume |-> v])
            /\ playback.isPlaying
            /\ liveNodes[id] > 0
            /\ \E c \in Range(audioClips) : c.id = id ) =>
              /\ \A j \in DOMAIN player'.gainNodes :
                    player'.gainNodes[j].id = id => player'.gainNodes[j].gain = v
              /\ player'.sources = player.sources
              /\ liveNodes' = liveNodes ]_vars

----------------------------------------------------------------------------
(* Placing and duplicating firework instances, defining custom fireworks *)

MaxDefinitions == 2

PlacementTimeInputs == {2000, 7000}
DuplicateOffsetInputs == {DefaultDuplicateOffset, 250}
NotesInputs == {"cue"}

\* the add-custom-firework form submitted while fewer than MaxDefinitions exist
DefineCustomFirework(fuseTime, liftTime, effectDuration) ==
    /\ nextCustom < MaxDefinitions
    /\ nextCustom' = nextCustom + 1
    /\ AddCustomFirework(FormDefinition(CustomId(nextCustom),
                                        fuseTime, liftTime, effectDuration))

NextPlacement ==
    \/ \E d \in DefinitionIdInputs, v \in PlacementTimeInputs :
          AddFirework(d, "firework-1", v)
    \/ \E id \in IssuedOrNextIds, o \in DuplicateOffsetInputs :
          DuplicateFirework(id, o)
    \/ \E id \in IssuedOrNextIds, n \in NotesInputs :
          UpdateFirework(id, [notes |-> n])
    \/ \E f \in FuseTimeInputs :
          DefineCustomFirework(f, DefaultLiftTime, DefaultEffectDuration)

SpecPlacement == Init /\ [][NextPlacement]_vars

InstanceIds == { f.id : f \in Range(fireworks) }

\* C21: addFirework with a definition id found neither in the library nor
\* among the custom definitions leaves the show as it was; with an id that is
\* found it adds exactly one instance, after the existing ones, whose fire time
\* is the visual time minus the definition's pre-firing offset, negative when
\* the offset is the larger.
C21_AddFireworkDerivesFireTime ==
    [][ lastOp'.op = "addFirework" =>
        \A d \in DefinitionIdInputs, v \in PlacementTimeInputs :
          AddFirework(d, "firework-1", v) =>
            LET defs == { x \in Range(fireworkLibrary) \cup Range(customFireworks) :
                            x.id = d }
                added == fireworks'[Len(fireworks')]
            IN IF defs = {}
               THEN Show' = Show
               ELSE /\ Len(fireworks') = Len(fireworks) + 1
                    /\ SubSeq(fireworks', 1, Len(fireworks)) = fireworks
                    /\ added.id \notin InstanceIds
                    /\ added.fireworkId = d
                    /\ added.visualTime = v
                    /\ \E x \in defs : added.fireTime = v - x.preFiringOffset
                    /\ [Show EXCEPT !.fireworks = <<>>, !.updatedAt = 0]
                         = [Show' EXCEPT !.fireworks = <<>>, !.updatedAt = 0] ]_vars

\* an instance whose fire time is before the start of the show has been added
C21_Witness ==
    /\ lastOp.op = "addFirework"
    /\ fireworks # <<>>
    /\ fireworks[Len(fireworks)].fireTime < 0

\* C22: duplicateFirework(id, offset) on an instance of the show adds exactly
\* one instance, with an id no instance had, that agrees with the original in
\* every field but the id and the two times, which are the original's plus the
\* offset; the instances there were, the original among them, stay as they
\* were; with an id no instance has the show is left as it was.
C22_DuplicateShiftsBothTimes ==
    [][ lastOp'.op = "duplicateFirework" =>
        \A id \in IssuedOrNextIds, o \in DuplicateOffsetInputs :
          DuplicateFirework(id, o) =>
            IF id \notin InstanceIds
            THEN Show' = Show
            ELSE LET original == CHOOSE f \in Range(fireworks) : f.id = id
                     copy == fireworks'[Len(fireworks')]
                     rest(f) == [f EXCEPT !.id = "", !.visualTime = 0, !.fireTime = 0]
                 IN /\ Len(fireworks') = Len(fireworks) + 1
                    /\ SubSeq(fireworks', 1, Len(fireworks)) = fireworks
                    /\ copy.id \notin InstanceIds
                    /\ copy.visualTime = original.visualTime + o
                    /\ copy.fireTime = original.fireTime + o
                    /\ rest(copy) = rest(original)
                    /\ [Show EXCEPT !.fireworks = <<>>, !.updatedAt = 0]
                         = [Show' EXCEPT !.fireworks = <<>>, !.updatedAt = 0] ]_vars

\* an annotated instance at 7000 that fires at 4000 has been duplicated with
\* the default offset: the copy is at 8000 and fires at 5000
C22_Witness ==
    /\ lastOp.op = "duplicateFirework"
    /\ Len(fireworks) = 2
    /\ fireworks[1].visualTime = 7000 /\ fireworks[1].fireTime = 4000
    /\ "notes" \in DOMAIN fireworks[1] /\ "notes" \in DOMAIN fireworks[2]
    /\ fireworks[2].visualTime = 7000 + DefaultDuplicateOffset
    /\ fireworks[2].fireTime = 4000 + DefaultDuplicateOffset
    /\ fireworks[2].id # fireworks[1].id

\* C23: addCustomFirework(definition) puts the definition after the custom
\* definitions of the show, which stay as they were and in their order; the
\* tracks, the clips, the instances and the name and duration of the show are
\* left alone, and so is the built-in library, which no handler writes.
C23_AddCustomFireworkAppends ==
    [][ lastOp'.op = "addCustomFirework" =>
        /\ Len(customFireworks') = Len(customFireworks) + 1
        /\ SubSeq(customFireworks', 1, Len(customFireworks)) = customFireworks
        /\ \E f \in FuseTimeInputs :
              customFireworks'[Len(customFireworks')]
                = FormDefinition(CustomId(nextCustom), f,
                                 DefaultLiftTime, DefaultEffectDuration)
        /\ [Show EXCEPT !.customFireworks = <<>>, !.updatedAt = 0]
             = [Show' EXCEPT !.customFireworks = <<>>, !.updatedAt = 0]
        /\ audioBuffers' = audioBuffers ]_vars

\* a second custom definition has been added to a show that has an instance
C23_Witness ==
    /\ lastOp.op = "addCustomFirework"
    /\ Len(customFireworks) = 2
    /\ customFireworks[1].id # customFireworks[2].id
    /\ fireworks # <<>>

----------------------------------------------------------------------------
(* Saving a show and loading it back *)

ShowNameInputs == {"Finale"}
ShortBufferInputs == {20, 100}

NextArchive ==
    \/ \E n \in ShowNameInputs : UpdateShowName(n)
    \/ AdvanceDate
    \/ AddAudioClipStart("audio-1", 0)
    \/ \E b \in ShortBufferInputs : AddAudioClipResolve(1, b)
    \/ AddAudioClipReject(1)
    \/ AddFirework("lib-peony", "firework-1", 7000)
    \/ \E id \in IssuedIds : RemoveAudioClip(id)
    \/ RemoveTrack("audio-1")
    \/ ExportShow
    \/ \E file \in {exported, GarbageFile} : ImportShow(file)

SpecArchive == Init /\ [][NextArchive]_vars

\* C24: importing the file exported from the show as it is gives a show with
\* the same name, duration, tracks, clips, instances, custom definitions and
\* creation date, and with updatedAt the time of the import.
C24_ImportRestoresExport ==
    [][ (lastOp'.op = "importShow" /\ exported = Stringify(Show)) =>
        /\ [Show' EXCEPT !.updatedAt = 0] = [Show EXCEPT !.updatedAt = 0]
        /\ updatedAt' = dateNow ]_vars

\* C28: the ids that have a decoded buffer are ids of clips of the show,
\* whichever way clips leave it (removeAudioClip, the cascade of removeTrack,
\* a show replaced by importShow).
C28_BuffersFollowClips ==
    { b.id : b \in audioBuffers } \subseteq { c.id : c \in Range(audioClips) }

\* loading files, some of them not JSON, into a show that is being edited
NextImport ==
    \/ \E n \in ShowNameInputs : UpdateShowName(n)
    \/ AdvanceDate
    \/ AddAudioClipStart("audio-1", 0)
    \/ \E b \in BufferInputs : AddAudioClipResolve(1, b)
    \/ AddAudioClipReject(1)
    \/ ExportShow
    \/ \E file \in {exported, GarbageFile} : ImportShow(file)

SpecImport == Init /\ [][NextImport]_vars

\* C25: importShow with data that is not JSON leaves the show as it was,
\* updatedAt included, and lets no error out.
C25_FailedImportKeepsShow ==
    [][ lastOp'.op = "importShowFailed" =>
        /\ Show' = Show
        /\ audioBuffers' = audioBuffers
        /\ raised' = "none" ]_vars

\* a file that is not JSON has been imported into a show that was edited
\* earlier than the import
C25_Witness ==
    /\ lastOp.op = "importShowFailed"
    /\ audioClips # <<>>
    /\ showName # createDefaultShow.name
    /\ updatedAt < dateNow

----------------------------------------------------------------------------
(* Decoding an audio file while the show is edited and played *)

ClipStartInputs == {0, 2000}

\* the edits and the transport commands of this scenario are issued while a
\* decode is pending
NextDecode ==
    \/ \E t \in ClipStartInputs : AddAudioClipStart("audio-1", t)
    \/ \E b \in BufferInputs : AddAudioClipResolve(1, b)
    \/ AddAudioClipReject(1)
    \/ pendingDecodes # <<>> /\ \E n \in ShowNameInputs : UpdateShowName(n)
    \/ pendingDecodes # <<>> /\ AddFirework("lib-peony", "firework-1", 7000)
    \/ pendingDecodes # <<>> /\ HandlePlay
    \/ pendingDecodes # <<>> /\ HandleStop

SpecDecode == Init /\ [][NextDecode]_vars

\* C26: when the decode fails, addAudioClip hands the error on to its caller
\* and neither the show nor the registry of decoded buffers changes.
C26_DecodeFailurePropagates ==
    [][ lastOp'.op = "addAudioClipFailed" =>
        /\ raised' # "none"
        /\ Show' = Show
        /\ audioBuffers' = audioBuffers ]_vars

\* a decode has failed in a show that has a clip and was edited meanwhile
C26_Witness ==
    /\ lastOp.op = "addAudioClipFailed"
    /\ raised = "EncodingError"
    /\ audioClips # <<>>
    /\ showName # createDefaultShow.name

\* what a step of addAudioClip that ends with success does
ResolveAppendsOneClip ==
    \E b \in BufferInputs :
      LET clip == audioClips'[Len(audioClips')]
      IN /\ Len(audioClips') = Len(audioClips) + 1
         /\ SubSeq(audioClips', 1, Len(audioClips)) = audioClips
         /\ clip.trimStart = 0 /\ clip.trimEnd = 0 /\ clip.volume = 1
         /\ clip.duration = b
         /\ clip.trackId = pendingDecodes[1].trackId
         /\ clip.startTime = pendingDecodes[1].startTime
         /\ \A c \in Range(audioClips) : c.id # clip.id
         /\ audioBuffers' = audioBuffers \cup {[id |-> clip.id, duration |-> b]}
         /\ [Show' EXCEPT !.audioClips = <<>>, !.updatedAt = 0]
              = [Show EXCEPT !.audioClips = <<>>, !.updatedAt = 0]

\* C27: while a decode is pending the other handlers can run (renaming the
\* show, adding a firework, stop, seek, and pause when playing), the call has
\* left nothing in the show or among the buffers (the clips and the
\* buffers carry the same ids); when the decode succeeds exactly one clip is
\* appended, with trimStart 0, trimEnd 0, volume 1 and the decoded length as
\* duration, its buffer is registered under the clip's id, and the rest of the
\* show is what the edits made in the meantime left.
C27_PendingDecodeIsolated ==
    [][ /\ pendingDecodes # <<>> =>
            /\ \A n \in ShowNameInputs : ENABLED UpdateShowName(n)
            /\ nextId < MaxIds => ENABLED AddFirework("lib-peony", "firework-1", 7000)
            /\ ENABLED HandleStop
            /\ \A t \in SeekInputs : ENABLED HandleSeek(t)
            /\ playback.isPlaying => ENABLED HandlePause
            /\ { c.id : c \in Range(audioClips) } = { b.id : b \in audioBuffers }
        /\ lastOp'.op = "addAudioClip" =>
            Show' = Show /\ audioBuffers' = audioBuffers
        /\ lastOp'.op = "addAudioClipDone" => ResolveAppendsOneClip ]_vars

\* a decode has succeeded after the show was renamed, a firework was added and
\* the transport was started while it was pending
C27_Witness ==
    /\ lastOp.op = "addAudioClipDone"
    /\ Len(audioClips) = 1
    /\ \E b \in audioBuffers : b.id = audioClips[1].id
    /\ showName # createDefaultShow.name
    /\ fireworks # <<>>
    /\ playback.isPlaying

----------------------------------------------------------------------------
(* The timeline ruler (generateRulerTicks) *)

\* JavaScript's a % b for b > 0: the sign is the dividend's
JsRem(a, b) == IF a >= 0 THEN a % b ELSE 0 - ((0 - a) % b)

\* the intervals with inclusive band limits
RulerIntervals_InclusiveLimits(pixelsPerSecond) ==
    IF pixelsPerSecond <= 20 THEN [minor |-> 10000, major |-> 60000]
    ELSE IF pixelsPerSecond <= 50 THEN [minor |-> 5000, major |-> 30000]
    ELSE IF pixelsPerSecond <= 100 THEN [minor |-> 1000, major |-> 10000]
    ELSE IF pixelsPerSecond >= 200 THEN [minor |-> 500, major |-> 5000]
    ELSE [minor |-> 1000, major |-> 5000]

\* minorInterval and majorInterval after the zoom has been looked at
RulerIntervals(pixelsPerSecond) ==
    IF pixelsPerSecond < 20 THEN [minor |-> 10000, major |-> 60000]
    ELSE IF pixelsPerSecond < 50 THEN [minor |-> 5000, major |-> 30000]
    ELSE IF pixelsPerSecond < 100 THEN [minor |-> 1000, major |-> 10000]
    ELSE IF pixelsPerSecond > 200 THEN [minor |-> 500, major |-> 5000]
    ELSE [minor |-> 1000, major |-> 5000]

RECURSIVE RulerLoop(_, _, _, _)

\* the loop stopping before endMs
RulerLoop_ExcludesEnd(time, endMs, minorInterval, majorInterval) ==
    LET n == IF time >= endMs THEN 0 ELSE ((endMs - 1 - time) \div minorInterval) + 1
    IN [i \in 1..n |->
          [ time |-> time + (i - 1) * minorInterval,
            isMajor |-> JsRem(time + (i - 1) * minorInterval, majorInterval) = 0 ]]

\* for (let time = start; time <= endMs; time += minorInterval) ticks.push(...)
RulerLoop(time, endMs, minorInterval, majorInterval) ==
    IF time <= endMs
    THEN <<[time |-> time, isMajor |-> JsRem(time, majorInterval) = 0]>>
         \o RulerLoop(time + minorInterval, endMs, minorInterval, majorInterval)
    ELSE <<>>

GenerateRulerTicks(startMs, endMs, pixelsPerSecond) ==
    LET iv == RulerIntervals(pixelsPerSecond)
        \* Math.floor(startMs / minorInterval) * minorInterval
        start == (startMs \div iv.minor) * iv.minor
    IN RulerLoop(start, endMs, iv.minor, iv.major)

\* a call of generateRulerTicks; minorInterval and majorInterval are its locals
CallGenerateRulerTicks(startMs, endMs, pixelsPerSecond) ==
    /\ ruler' = [ startMs |-> startMs, endMs |-> endMs,
                  pixelsPerSecond |-> pixelsPerSecond,
                  minorInterval |-> RulerIntervals(pixelsPerSecond).minor,
                  majorInterval |-> RulerIntervals(pixelsPerSecond).major,
                  ticks |-> GenerateRulerTicks(startMs, endMs, pixelsPerSecond) ]
    /\ lastOp' = Op("generateRulerTicks", 0)
    /\ UNCHANGED <<showVars, transportVars, dateNow, exported, mapped, serverVars>>

RulerStartInputs == {0 - 700, 0, 1250, 5000}
RulerEndInputs == {0, 4999, 5000, 12000, 30000}
ZoomInputs == {10, 19, 20, 49, 50, 99, 100, 200, 201}

NextRuler ==
    \E s \in RulerStartInputs, e \in RulerEndInputs, p \in ZoomInputs :
       CallGenerateRulerTicks(s, e, p)

SpecRuler == Init /\ [][NextRuler]_vars

\* C29: the minor and major intervals are 10 s and 60 s below 20 pixels per
\* second, 5 s and 30 s from 20 to below 50, 1 s and 10 s from 50 to below
\* 100, 1 s and 5 s from 100 to 200, and 0.5 s and 5 s above 200.
C29_IntervalsByZoom ==
    lastOp.op = "generateRulerTicks" =>
      LET p == ruler.pixelsPerSecond
          iv == <<ruler.minorInterval, ruler.majorInterval>>
      IN /\ p < 20 => iv = <<10000, 60000>>
         /\ (20 <= p /\ p < 50) => iv = <<5000, 30000>>
         /\ (50 <= p /\ p < 100) => iv = <<1000, 10000>>
         /\ (100 <= p /\ p <= 200) => iv = <<1000, 5000>>
         /\ p > 200 => iv = <<500, 5000>>

\* the ruler has been computed at the limit of a band
C29_Witness ==
    /\ lastOp.op = "generateRulerTicks"
    /\ ruler.pixelsPerSecond = 200
    /\ ruler.minorInterval = 1000 /\ ruler.majorInterval = 5000
    /\ ruler.ticks # <<>>

\* C30: the ticks start at the largest multiple of the minor interval that is
\* not after startMs, follow each other at the minor interval in increasing
\* order, and end with the last such time that is not after endMs (endMs
\* itself when it is a multiple); there is none when endMs is before the
\* first; a tick is major exactly when its time is a multiple of the major
\* interval.
C30_TicksCoverRange ==
    lastOp.op = "generateRulerTicks" =>
      LET t == ruler.ticks
          m == ruler.minorInterval
          first == CHOOSE x \in (ruler.startMs - m + 1)..ruler.startMs : x % m = 0
      IN /\ (t = <<>>) <=> (ruler.endMs < first)
         /\ t # <<>> =>
              /\ t[1].time = first
              /\ t[Len(t)].time <= ruler.endMs
              /\ ruler.endMs < t[Len(t)].time + m
         /\ \A i \in 1..(Len(t) - 1) : t[i + 1].time = t[i].time + m
         /\ \A i \in DOMAIN t :
              t[i].isMajor <=> (t[i].time % ruler.majorInterval = 0)

\* a range that starts between two ticks, before zero, and ends on a major tick
C30_Witness ==
    /\ lastOp.op = "generateRulerTicks"
    /\ ruler.startMs < 0
    /\ ruler.endMs = 5000
    /\ ruler.minorInterval = 500
    /\ Len(ruler.ticks) = 13
    /\ ruler.ticks[13] = [time |-> 5000, isMajor |-> TRUE]
    /\ ruler.ticks[12] = [time |-> 4500, isMajor |-> FALSE]

----------------------------------------------------------------------------
(* Pixels and milliseconds (msToPixels, pixelsToMs) *)

\* A number is a binary floating-point value [m, e] standing for m * 2^e with
\* |m| < 2^MantissaBits; every arithmetic operation rounds its exact result to
\* the nearest such value, ties to even.

Abs(x) == IF x < 0 THEN 0 - x ELSE x

\* n / d (n >= 0, d > 0) rounded to the nearest integer, ties to even
RoundHalfEven(n, d) ==
    LET q == n \div d
        r == n % d
    IN IF 2 * r > d \/ (2 * r = d /\ q % 2 = 1) THEN q + 1 ELSE q

\* the number nearest to (n / d) * 2^e, for n >= 0 and d > 0
RECURSIVE FlPos(_, _, _)
FlPos(n, d, e) ==
    IF n = 0 THEN [m |-> 0, e |-> 0]
    ELSE IF n \div d >= 2 ^ MantissaBits THEN FlPos(n, 2 * d, e + 1)
    ELSE IF n \div d < 2 ^ (MantissaBits - 1) THEN FlPos(2 * n, d, e - 1)
    ELSE LET m == RoundHalfEven(n, d)
         IN IF m = 2 ^ MantissaBits
            THEN [m |-> 2 ^ (MantissaBits - 1), e |-> e + 1]
            ELSE [m |-> m, e |-> e]

Fl(n, d, e) ==
    IF n < 0 THEN [FlPos(0 - n, d, e) EXCEPT !.m = 0 - @] ELSE FlPos(n, d, e)

\* x / c and x * c for a number x and a whole number c > 0
FlDiv(x, c) == Fl(x.m, c, x.e)
FlMul(x, c) == Fl(x.m * c, 1, x.e)

\* (ms / 1000) * pixelsPerSecond
MsToPixels(ms, pixelsPerSecond) == FlMul(FlDiv(ms, 1000), pixelsPerSecond)

\* pixelsToMs cutting the seconds to a whole number
PixelsToMs_WholeSeconds(pixels, pixelsPerSecond) ==
    LET q == FlDiv(pixels, pixelsPerSecond)
        whole == IF q.e >= 0 THEN q.m * 2 ^ q.e ELSE q.m \div 2 ^ (0 - q.e)
    IN FlMul(Fl(whole, 1, 0), 1000)

\* (pixels / pixelsPerSecond) * 1000
PixelsToMs(pixels, pixelsPerSecond) == FlMul(FlDiv(pixels, pixelsPerSecond), 1000)

\* a position on the timeline turned into a time and drawn again
MapPixels(pixels, pixelsPerSecond) ==
    /\ LET ms == PixelsToMs(Fl(pixels, 1, 0), pixelsPerSecond)
       IN mapped' = [ fn |-> "pixelsToMs", arg |-> pixels,
                      pixelsPerSecond |-> pixelsPerSecond,
                      result |-> ms, back |-> MsToPixels(ms, pixelsPerSecond) ]
    /\ lastOp' = Op("pixelsToMs", 0)
    /\ UNCHANGED <<showVars, transportVars, dateNow, exported, ruler, serverVars>>

\* a time drawn on the timeline and read back from its position
MapMs(ms, pixelsPerSecond) ==
    /\ LET px == MsToPixels(Fl(ms, 1, 0), pixelsPerSecond)
       IN mapped' = [ fn |-> "msToPixels", arg |-> ms,
                      pixelsPerSecond |-> pixelsPerSecond,
                      result |-> px, back |-> PixelsToMs(px, pixelsPerSecond) ]
    /\ lastOp' = Op("msToPixels", 0)
    /\ UNCHANGED <<showVars, transportVars, dateNow, exported, ruler, serverVars>>

PixelInputs == {0 - 120, 0, 1, 3, 10, 64, 100, 333, 640, 1000}
MsInputs == {0, 1, 500, 1000, 1250, 2000, 3333, 4000, 5000, 7000}
PixelsPerSecondInputs == {10, 30, 100, 250, 500}

NextMapping ==
    \/ \E x \in PixelInputs, pps \in PixelsPerSecondInputs : MapPixels(x, pps)
    \/ \E t \in MsInputs, pps \in PixelsPerSecondInputs : MapMs(t, pps)

SpecMapping == Init /\ [][NextMapping]_vars

\* |x - n| <= 1/2 for a number x and a whole number n
WithinHalf(x, n) ==
    IF x.e >= 0 THEN 2 * Abs(x.m * 2 ^ x.e - n) <= 1
    ELSE 2 * Abs(x.m - n * 2 ^ (0 - x.e)) <= 2 ^ (0 - x.e)

\* C31: converting a whole number of pixels to milliseconds and back, or a
\* whole number of milliseconds to pixels and back, at a zoom above 0, gives
\* the value started from to within half a unit, so that rounding to the
\* nearest whole number restores it.
C31_ConversionsInverse ==
    mapped.fn # "none" => WithinHalf(mapped.back, mapped.arg)

\* a position whose time is not a whole number of milliseconds, and a time
\* whose position is not a whole number of pixels, have been converted
C31_Witness ==
    /\ mapped.fn = "msToPixels"
    /\ mapped.arg = 3333
    /\ mapped.pixelsPerSecond = 30
    /\ mapped.result.e < 0


-----------------------------------------------------------------------------
\* palbot: POST /chat/stream.  ClaudeService.stream feeds an RxJS Subject from
\* the child process (spawn variant) or from the SDK's async generator (SDK
\* variant); ChatController.streamChat pipes it into server-sent events.

\* Buffer.toString() of one chunk: a two-byte character whose bytes arrive in
\* the same chunk decodes to the character, a lead byte without its
\* continuation byte and a continuation byte without its lead byte each
\* decode to the replacement character U+FFFD.
RECURSIVE DecodeFrom(_, _)
DecodeFrom(chunk, i) ==
    IF i > Len(chunk) THEN <<>>
    ELSE IF chunk[i] = "C3" /\ i < Len(chunk) /\ chunk[i + 1] = "A9"
         THEN <<"e-acute">> \o DecodeFrom(chunk, i + 2)
    ELSE IF chunk[i] \in {"C3", "A9"}
         THEN <<"U+FFFD">> \o DecodeFrom(chunk, i + 1)
    ELSE <<chunk[i]>> \o DecodeFrom(chunk, i + 1)

ChunkToString(chunk) == DecodeFrom(chunk, 1)

\* String.prototype.split('\n'): the pieces between line feeds; the last piece
\* is what follows the last line feed (empty when the text ends with one).
RECURSIVE SplitFrom(_, _, _)
SplitFrom(text, i, piece) ==
    IF i > Len(text) THEN <<piece>>
    ELSE IF text[i] = "LF" THEN <<piece>> \o SplitFrom(text, i + 1, <<>>)
    ELSE SplitFrom(text, i + 1, Append(piece, text[i]))

SplitLines(text) == SplitFrom(text, 1, <<>>)

\* String.prototype.trim()
RECURSIVE Trim(_)
Trim(line) ==
    IF line = <<>> THEN line
    ELSE IF Head(line) = " " THEN Trim(Tail(line))
    ELSE IF line[Len(line)] = " " THEN Trim(SubSeq(line, 1, Len(line) - 1))
    ELSE line

\* JSON.parse of one NDJSON line of the CLI: "{" kind payload "}" is an
\* object, anything else throws.  kind "t" is a stream_event whose text delta
\* is the payload, "r" the result message, "s" the system init message.
IsJson(line) ==
    /\ Len(line) >= 3
    /\ line[1] = "{"
    /\ line[Len(line)] = "}"
    /\ line[2] \in {"t", "r", "s"}
    /\ \A i \in 3..(Len(line) - 1) : line[i] \in {"e-acute", "U+FFFD"}

JsonParse(line) ==
    [type |-> CASE line[2] = "t" -> "stream_event"
                [] line[2] = "r" -> "result"
                [] OTHER -> "system",
     text |-> SubSeq(line, 3, Len(line) - 1)]

\* ChatController.streamChat, spawn variant: filter and map
MapStreamEvent(event) ==
    IF event.type = "result" THEN <<[type |-> "done", data |-> event.text]>>
    ELSE IF event.type # "stream_event" THEN <<>>
    ELSE IF event.text # <<>> THEN <<[type |-> "text", data |-> event.text]>>
    ELSE <<[type |-> "event", data |-> event.text]>>

\* ChatController.streamChat, SDK variant: map
MapSdkEvent(event) ==
    CASE event.type = "result" -> <<[type |-> "done", data |-> event.text]>>
      [] event.type = "assistant_text" -> <<[type |-> "text", data |-> event.text]>>
      [] OTHER -> <<[type |-> "event", data |-> event.text]>>

\* concat(events$, close$): the close signal follows the completion of events$
CloseSignal_Omitted(sent) == sent
CloseSignal(sent) == Append(sent, [type |-> "close", data |-> <<>>])

OnComplete(r) == [r EXCEPT !.sent = CloseSignal(@), !.ended = TRUE]

\* catchError: one error message replaces the failed stream, which then completes
CatchError(err) == <<[type |-> "error", data |-> err]>>

OnError(r, err) == OnComplete([r EXCEPT !.sent = @ \o CatchError(err)])

OnNext(r, event, variant) ==
    IF ~r.subscribed \/ r.ended THEN r
    ELSE [r EXCEPT !.sent = @ \o (IF variant = "spawn" THEN MapStreamEvent(event)
                                  ELSE MapSdkEvent(event))]

\* Subject.next / error / complete: nothing happens once the Subject stopped
SubjectNext(s, event) ==
    IF s.c.stopped THEN s
    ELSE [c |-> [s.c EXCEPT !.emitted = Append(@, event)],
          r |-> OnNext(s.r, event, s.c.variant)]

SubjectError(s, err) ==
    IF s.c.stopped THEN s
    ELSE [c |-> [s.c EXCEPT !.stopped = TRUE, !.thrown = err],
          r |-> IF s.r.subscribed /\ ~s.r.ended THEN OnError(s.r, err) ELSE s.r]

SubjectComplete(s) ==
    IF s.c.stopped THEN s
    ELSE [c |-> [s.c EXCEPT !.stopped = TRUE],
          r |-> IF s.r.subscribed /\ ~s.r.ended THEN OnComplete(s.r) ELSE s.r]

\* the loop over the complete lines of a chunk: blank lines are skipped,
\* lines that do not parse are logged and skipped
RECURSIVE EmitLines(_, _, _)
EmitLines(s, lines, i) ==
    IF i > Len(lines) THEN s
    ELSE LET trimmed == Trim(lines[i]) IN
         IF trimmed = <<>> \/ ~IsJson(trimmed) THEN EmitLines(s, lines, i + 1)
         ELSE EmitLines(SubjectNext(s, JsonParse(trimmed)), lines, i + 1)

Server == [c |-> claude, r |-> response]

SetServer(s) ==
    /\ claude' = s.c
    /\ response' = s.r

ExitMessage(code) == <<"claude exited with code", code>>
SpawnError == <<"spawn claude ENOENT">>
SdkError == <<"SDK failure">>

\* the close handler's last step: the exit code decides between error and complete
CloseOutcome_IgnoresCode(s, code) == SubjectComplete(s)
CloseOutcome(s, code) ==
    IF code # "0" THEN SubjectError(s, ExitMessage(code)) ELSE SubjectComplete(s)

\* POST /chat/stream, spawn variant: the child is spawned; what it will write,
\* how it will exit and whether the spawn itself fails is the environment's choice
StreamChatSpawn(output, code, fails) ==
    /\ claude.phase = "idle"
    /\ claude' = [NoStream EXCEPT !.phase = "running", !.variant = "spawn",
                                  !.output = output, !.stdout = output,
                                  !.exitCode = code, !.spawnFails = fails]
    /\ response' = NoResponse
    /\ lastOp' = Op("streamChat", 0)
    /\ UNCHANGED <<showVars, transportVars, dateNow, exported, ruler, mapped>>

\* POST /chat/stream, SDK variant: query() is called in the background
StreamChatSdk(messages, throws) ==
    /\ claude.phase = "idle"
    /\ claude' = [NoStream EXCEPT !.phase = "running", !.variant = "sdk",
                                  !.messages = messages, !.throws = throws]
    /\ response' = NoResponse
    /\ lastOp' = Op("streamChat", 1)
    /\ UNCHANGED <<showVars, transportVars, dateNow, exported, ruler, mapped>>

\* the framework subscribes to the returned observable; a Subject that already
\* stopped hands its error or completion to the late subscriber
Subscribe ==
    /\ claude.phase # "idle"
    /\ ~response.subscribed
    /\ LET r == [response EXCEPT !.subscribed = TRUE] IN
       response' = IF ~claude.stopped THEN r
                   ELSE IF claude.thrown # <<>> THEN OnError(r, claude.thrown)
                   ELSE OnComplete(r)
    /\ lastOp' = Op("subscribe", 0)
    /\ UNCHANGED <<showVars, transportVars, dateNow, exported, ruler, mapped, claude>>

\* child.stdout.on('data'): the next n bytes of the output arrive as one chunk
StdoutData(n) ==
    /\ claude.phase = "running"
    /\ claude.variant = "spawn"
    /\ ~claude.spawnFails
    /\ n \in 1..Len(claude.stdout)
    /\ LET chunk == SubSeq(claude.stdout, 1, n)
           lines == SplitLines(claude.buffer \o ChunkToString(chunk))
           s == [Server EXCEPT !.c.stdout = SubSeq(@, n + 1, Len(@)),
                               !.c.buffer = lines[Len(lines)]]
       IN SetServer(EmitLines(s, SubSeq(lines, 1, Len(lines) - 1), 1))
    /\ lastOp' = Op("data", n)
    /\ UNCHANGED <<showVars, transportVars, dateNow, exported, ruler, mapped>>

\* child.on('error'): the spawn failed
ChildError ==
    /\ claude.phase = "running"
    /\ claude.variant = "spawn"
    /\ claude.spawnFails
    /\ ~claude.errorEmitted
    /\ SetServer(SubjectError([Server EXCEPT !.c.errorEmitted = TRUE,
                                             !.c.failure = SpawnError],
                              SpawnError))
    /\ lastOp' = Op("childError", 0)
    /\ UNCHANGED <<showVars, transportVars, dateNow, exported, ruler, mapped>>

\* child.on('close'): the held line is flushed, then the exit code decides
ChildClose ==
    /\ claude.phase = "running"
    /\ claude.variant = "spawn"
    /\ claude.stdout = <<>>
    /\ claude.spawnFails => claude.errorEmitted
    /\ LET s == [Server EXCEPT !.c.phase = "closed",
                               !.c.failure = IF @ = <<>> /\ claude.exitCode # "0"
                                             THEN ExitMessage(claude.exitCode)
                                             ELSE @]
           flushed == EmitLines(s, <<claude.buffer>>, 1)
       IN SetServer(CloseOutcome(flushed, claude.exitCode))
    /\ lastOp' = Op("childClose", 0)
    /\ UNCHANGED <<showVars, transportVars, dateNow, exported, ruler, mapped>>

\* ClaudeService.mapMessageToEvent
MapMessageToEvent(message) ==
    CASE message = "assistant_text" ->
             <<[type |-> "assistant_text", text |-> <<"e-acute">>]>>
      [] message = "assistant_tool" -> <<[type |-> "message", text |-> <<>>]>>
      [] message = "result_success" -> <<[type |-> "result", text |-> <<"e-acute">>]>>
      [] message = "result_error" -> <<[type |-> "result", text |-> <<>>]>>
      [] message = "stream_text" ->
             <<[type |-> "assistant_text", text |-> <<"e-acute">>]>>
      [] OTHER -> <<>>

\* one iteration of the for await loop
SdkMessage ==
    /\ claude.phase = "running"
    /\ claude.variant = "sdk"
    /\ claude.messages # <<>>
    /\ LET event == MapMessageToEvent(Head(claude.messages))
           s == [Server EXCEPT !.c.messages = Tail(@)]
       IN SetServer(IF event = <<>> THEN s ELSE SubjectNext(s, event[1]))
    /\ lastOp' = Op("sdkMessage", 0)
    /\ UNCHANGED <<showVars, transportVars, dateNow, exported, ruler, mapped>>

\* the generator is exhausted: subject.complete()
SdkReturn ==
    /\ claude.phase = "running"
    /\ claude.variant = "sdk"
    /\ claude.messages = <<>>
    /\ ~claude.throws
    /\ SetServer(SubjectComplete([Server EXCEPT !.c.phase = "closed"]))
    /\ lastOp' = Op("sdkReturn", 0)
    /\ UNCHANGED <<showVars, transportVars, dateNow, exported, ruler, mapped>>

\* the generator throws: the catch block calls subject.error(err)
SdkThrow ==
    /\ claude.phase = "running"
    /\ claude.variant = "sdk"
    /\ claude.messages = <<>>
    /\ claude.throws
    /\ SetServer(SubjectError([Server EXCEPT !.c.phase = "closed",
                                             !.c.failure = SdkError],
                              SdkError))
    /\ lastOp' = Op("sdkThrow", 0)
    /\ UNCHANGED <<showVars, transportVars, dateNow, exported, ruler, mapped>>

\* what the child writes: NDJSON with a two-byte character, a blank line, a
\* line that is not JSON, and a last line without line feed
OutputInputs ==
    { <<>>,
      <<"{", "t", "C3", "A9", "}", "LF", "{", "r", "}", "LF">>,
      <<"{", "s", "}", "LF", " ", "LF", "{", "t", "}", "LF", "{", "r", "}">>,
      <<"x", "LF", " ", "{", "t", "C3", "A9", "}">> }
ExitCodeInputs == {"0", "1", "null"}
SdkMessageInputs ==
    { <<>>,
      <<"system", "stream_text", "assistant_text", "result_success">>,
      <<"assistant_tool", "stream_other", "result_error">> }

NextChat ==
    \/ \E output \in OutputInputs, code \in ExitCodeInputs :
           StreamChatSpawn(output, code, FALSE)
    \/ StreamChatSpawn(<<>>, "-2", TRUE)
    \/ \E messages \in SdkMessageInputs, throws \in BOOLEAN :
           StreamChatSdk(messages, throws)
    \/ Subscribe
    \/ \E n \in 1..Len(claude.stdout) : StdoutData(n)
    \/ ChildError
    \/ ChildClose
    \/ SdkMessage
    \/ SdkReturn
    \/ SdkThrow

SpecChat == Init /\ [][NextChat]_vars


\* the underlying Claude stream is over: the child closed, the generator
\* finished, or the spawn failed
StreamOver == claude.phase = "closed" \/ claude.failure # <<>>

EventsOfType(type) == {i \in DOMAIN response.sent : response.sent[i].type = type}

\* C32: every /chat/stream response carries at most one close event, nothing
\* follows it, and once the Claude stream is over, normally or by failure, the
\* subscribed response ends with that close event.
C32_SingleFinalClose ==
    /\ \A i \in EventsOfType("close") : i = Len(response.sent)
    /\ (response.subscribed /\ StreamOver) =>
           EventsOfType("close") = {Len(response.sent)} /\ response.ended

C32_Witness ==
    /\ claude.phase = "closed"
    /\ claude.failure = <<>>
    /\ response.subscribed
    /\ Len(response.sent) >= 3
    /\ EventsOfType("done") # {}
    /\ response.sent[Len(response.sent)].type = "close"

\* C33: a failed Claude stream (exit code other than 0, spawn error, SDK
\* exception) puts exactly one error event carrying the message into the
\* response, followed by close alone; a stream that did not fail puts none.
C33_ErrorOnFailureOnly ==
    /\ claude.failure = <<>> => EventsOfType("error") = {}
    /\ \A i \in EventsOfType("error") :
           /\ response.sent[i].data = claude.failure
           /\ i = Len(response.sent) - 1
           /\ response.sent[Len(response.sent)].type = "close"
    /\ (claude.failure # <<>> /\ response.subscribed) => EventsOfType("error") # {}

C33_Witness ==
    /\ claude.failure = ExitMessage("1")
    /\ response.subscribed
    /\ EventsOfType("text") # {}
    /\ EventsOfType("error") = {Len(response.sent) - 1}
    /\ response.sent[Len(response.sent)].type = "close"


\* the parsed objects of the non-empty JSON lines of the child's whole output,
\* in order
RECURSIVE ParsedLines(_, _)
ParsedLines(lines, i) ==
    IF i > Len(lines) THEN <<>>
    ELSE LET trimmed == Trim(lines[i]) IN
         IF trimmed = <<>> \/ ~IsJson(trimmed) THEN ParsedLines(lines, i + 1)
         ELSE <<JsonParse(trimmed)>> \o ParsedLines(lines, i + 1)

ObjectsOf(output) == ParsedLines(SplitLines(ChunkToString(output)), 1)

\* C40: whatever the chunking of the child's stdout, when the process has
\* closed ClaudeService.stream has emitted exactly the parsed objects of the
\* non-empty JSON lines of the output, each once and in order.
C40_EmitsEveryLineOnce ==
    (claude.phase = "closed" /\ claude.variant = "spawn" /\ ~claude.spawnFails) =>
        claude.emitted = ObjectsOf(claude.output)

\* the same for the chunkings that never cut a character in two
C40_WholeCharacterChunks ==
    ( /\ claude.phase = "closed" /\ claude.variant = "spawn" /\ ~claude.spawnFails
      /\ \A i \in DOMAIN claude.emitted : "U+FFFD" \notin Range(claude.emitted[i].text) ) =>
        claude.emitted = ObjectsOf(claude.output)


-----------------------------------------------------------------------------
(* Claims about the transport under interleavings of the controls, the
   delayed restart and edits of the show *)

\* C34: whenever the transport is not playing, no source is running and none
\* is registered with the player waiting for its start time, whatever the
\* interleaving of play, pause, stop, seek and the delayed restart.
C34_NotPlayingMeansSilent ==
    ~playback.isPlaying =>
        /\ \A id \in DOMAIN liveNodes : liveNodes[id] = 0
        /\ player.sources = NoSources


\* C35: after seek(t) while playing, a tick of the playback loop that comes
\* before any pause, stop, further seek or end of show reports a currentTime
\* of at least t (stated for the ticks between the seek and whatever control
\* comes next, the delayed restart included).
C35_TickNotBeforeSeekTarget ==
    [][ ( /\ lastOp.op = "seek"
          /\ lastOp.wasPlaying
          /\ raised = "none"
          /\ lastOp'.op = "tick"
          /\ lastOp'.arg = 0 ) =>
          playback'.currentTime >= lastOp.arg ]_vars


\* seeks that follow each other while playing, within the show and to its end
RepeatedSeekInputs == {Quantum, 2 * Quantum, duration}

NextSeeks ==
    \/ /\ Len(audioClips) + Len(pendingDecodes) < MaxPlayedClips
       /\ AddAudioClipStart("audio-1", 0)
    \/ \E i \in DOMAIN pendingDecodes, b \in BufferInputs : AddAudioClipResolve(i, b)
    \/ HandlePlay
    \/ \E t \in RepeatedSeekInputs : HandleSeekWithin(t, MaxSeeks)
    \/ RestartTimer
    \/ Tick
    \/ AdvanceClock

SpecSeeks == Init /\ [][NextSeeks]_vars

\* the last of several restarts that were in flight together fires
LastRestartFires ==
    /\ Len(timers) = 1
    /\ Head(timers).behind >= 1
    /\ timers' = <<>>
    /\ lastOp'.op = "restart"

\* after the step the clock reads the target of the last seek, and every clip
\* handed to the restart has exactly one source, the registered one
LastSeekWon ==
    LET t == Head(timers) IN
    /\ player'.isPlaying
    /\ GetCurrentTime(player', ctxTime') = t.time
    /\ Len(player'.sources) = Len(t.clips)
    /\ \A i \in DOMAIN t.clips :
           /\ player'.sources[i].id = t.clips[i].id
           /\ liveNodes'[t.clips[i].id] = IF player'.sources[i].started THEN 1 ELSE 0

NextLiveEdits ==
    \/ /\ Len(audioClips) + Len(pendingDecodes) < MaxPlayedClips
       /\ AddAudioClipStart("audio-1", 0)
    \/ \E i \in DOMAIN pendingDecodes, b \in BufferInputs : AddAudioClipResolve(i, b)
    \/ \E t \in MuteInputs, b \in BOOLEAN : UpdateTrack(t, [muted |-> b])
    \/ \E t \in MuteInputs : RemoveTrack(t)
    \/ \E id \in IssuedIds : RemoveAudioClip(id)
    \/ HandlePlay
    \/ HandleStop
    \/ Tick
    \/ AdvanceClock

SpecLiveEdits == Init /\ [][NextLiveEdits]_vars

\* C37: while playing, after a tick of the playback loop every running source
\* belongs to a clip that is in the show on a track that exists and is not
\* muted (an edit that removes the clip, removes its track or mutes it has
\* stopped the source by the next tick).
C37_SourcesFollowEdits ==
    [][ ( /\ lastOp'.op = "tick"
          /\ Tick
          /\ playback'.isPlaying ) =>
          \A id \in DOMAIN liveNodes' :
              liveNodes'[id] > 0 =>
                  \E c \in Range(audioClips') :
                      /\ c.id = id
                      /\ \E t \in Range(tracks') : t.id = c.trackId /\ ~t.muted ]_vars


\* the ids of the tracks of the show: the lanes the timeline and the track
\* list offer for a drop or an audio import
TrackIds == { t.id : t \in Range(tracks) }

\* the track operations, with every placement aimed at a track of the show
NextReferences ==
    \/ \E type \in {"audio", "firework"} : AddTrack(type)
    \/ \E t \in TrackIds : RemoveTrack(t)
    \/ \E t \in TrackIds, v \in VisualTimeInputs : AddFirework("lib-peony", t, v)
    \/ \E t \in TrackIds : AddAudioClipStart(t, 0)
    \/ \E i \in DOMAIN pendingDecodes, b \in BufferInputs : AddAudioClipResolve(i, b)

SpecReferences == Init /\ [][NextReferences]_vars

\* C38: in every reachable state every audio clip and every firework instance
\* is on a track of the show, whatever the interleaving of addTrack,
\* removeTrack, addFirework and addAudioClip with its pending decode.
C38_PlacementsOnExistingTracks ==
    /\ \A c \in Range(audioClips) : c.trackId \in TrackIds
    /\ \A f \in Range(fireworks) : f.trackId \in TrackIds


\* the durations the transport bar sets: whole minutes
DurationInputs == {60000, 300000}

\* the positions the ruler and the playhead drag hand to handleSeek: within
\* the show as it is when they are issued
ClampedSeekInputs == { t \in {0, 2 * Quantum, 120000, duration} : t <= duration }

NextDuration ==
    \/ \E d \in DurationInputs : UpdateShowDuration(d)
    \/ HandlePlay
    \/ HandlePause
    \/ HandleStop
    \/ \E t \in ClampedSeekInputs : HandleSeek(t)
    \/ RestartTimer
    \/ Tick
    \/ AdvanceClock

SpecDuration == Init /\ [][NextDuration]_vars

\* C39: in every reachable state 0 <= currentTime <= show.duration, after any
\* sequence of play, pause, stop, seek, ticks and updateShowDuration.
C39_PlayheadWithinShow ==
    /\ 0 <= playback.currentTime
    /\ playback.currentTime <= duration

====
